---- MODULE Spec2Model ----
(***************************************************************************)
(* SaneC: the exception engine of saneex (try / catch / catchall /        *)
(* finally / endtry, throw, rethrow), src/saneobj.c:358-635 and the       *)
(* macros of src/saneex.h:178-185.                                        *)
(*                                                                         *)
(* One thread runs an arbitrary structured program: at every point of a   *)
(* try body, a catch body, a finally body or the top level it may throw,  *)
(* rethrow, open a nested protected region or finish the block.  The      *)
(* text of a region (its catch clauses, whether it has finally) is fixed  *)
(* per region and is read when control first reaches it.                  *)
(***************************************************************************)
EXTENDS Integers, Sequences, FiniteSets, TLC

\* ---------------------------------------------------------------- bounds
\* Deepest nesting of protected regions the modelled programs use.
MaxDepth == 2
\* Most catch/catchall clauses a modelled region has.
MaxClauses == 2
\* Longest trace at which a modelled program still calls rethrow().
MaxRethrowTrace == 2
\* Deepest nesting of protected regions in each of two threads.
MaxThreadDepth == 2

\* Classes of a hierarchy.
MaxVts == 3

\* Most take calls, and most release calls, a program makes on an object.
MaxTakes == 2

\* Most payloads a program allocates for its exceptions.
MaxExtras == 2
\* Deepest recursion of the programs that throw payloads.
MaxExtraDepth == 12

\* ------------------------------------------------------ program constants
MAX_TRY_CATCH == 100
MAX_TRACE == 20
FINALLY_THRESHOLD == 50
TOO_NESTED_LIMIT == 1000
EXIT_UNCAUGHT == 200
EXIT_MAX_TRIES == 254
EXIT_NO_TRY_ON_LEAVE == 253
EXIT_OUTSIDE_RETHROW == 252
EXIT_OUTSIDE_CAUGHT == 251
EXIT_TOO_NESTED == 250
EXIT_CAP == 254

\* ------------------------------------------------------------ input sets
\* Codes a program puts in SxTraceEntry.code: 0 stands for "no code"
\* (errno == 0, any value below 1), which longjmp turns into 1; 60 is an
\* ordinary code, large enough for EXIT_UNCAUGHT + code to pass the cap.
ThrowCodes == {0, 60}
\* catch(n) clauses of the modelled programs; 0 denotes catchall.
CATCHALL == 0
ClauseKinds == {CATCHALL, 1, 60}
\* A SxTraceEntry as built by newex()/msgex(): code, uncatchable, message.
UserEntries == [code : ThrowCodes, uncatchable : BOOLEAN, message : {""}]

VARIABLES
  contexts,          \* contexts[0 .. nextContext-1], innermost last
  sxLastJumpCode,    \* _sxLastJumpCode
  trace,             \* trace[0 .. nextTrace-1]
  hasUncatchable,    \* hasUncatchable
  exitCode,          \* status handed to exit(), -1 while the process runs
  self,              \* the thread that is running
  tls,               \* the thread-local storage of each suspended thread
  vts,               \* the class descriptors (Object_vt and its extensions)
  result,            \* what the last call of the object system returned
  heap,              \* the objects: class, refs, and what was done to them
  proc,              \* the call of sjNew or sjDel in progress
  history,           \* the take and release calls made, with their results
  sjObjectsCreated,  \* sjObjectsCreated
  sjObjectsDeleted,  \* sjObjectsDeleted
  calls              \* constructors, destructors and callbacks run, in order

vars == <<contexts, sxLastJumpCode, trace, hasUncatchable, exitCode>>
thrVars == <<self, tls>>
trkVars == <<sjObjectsCreated, sjObjectsDeleted, calls>>
objVars == <<vts, result, heap, proc, history, trkVars>>
allVars == <<vars, thrVars, objVars>>

nextContext == Len(contexts)
nextTrace == Len(trace)

\* Positions of control inside try..endtry (the macro expansion of
\* saneex.h:178-182): "try" body, "clause" (longjmp has landed, the if of
\* try was false and the else-if chain is being evaluated), "catch" body,
\* "fin" (the if of finally), "finally" body, "endtry".
Blocks == {"try", "catch", "finally"}

Running == exitCode = -1
Top == contexts[nextContext]
\* User code runs at top level or inside a block of the innermost region.
InUserCode ==
  Running /\ IF nextContext = 0 THEN TRUE ELSE Top.pc \in Blocks

\* struct TryContext (caught), the position of control in the region (pc,
\* k: the clause of the else-if chain evaluated next), the text of the
\* region as far as control has reached it (clauses; open: more clauses may
\* follow; fin: "?" until the end of the chain is first reached) and what
\* has happened in the region so far: claimed, the code a catch clause of
\* the region took (0: none did); nFinally, how often the finally body was
\* entered; from and pending, the block whose throw landed here last and
\* the code it landed with, pending being zeroed when a catch takes it;
\* unc, whether the uncatchable flag was set at one of those landings;
\* landed, the blocks left at each return of setjmp with a code, in order.
NewContext ==
  [caught |-> 0, pc |-> "try", k |-> 0,
   clauses |-> <<>>, open |-> TRUE, fin |-> "?",
   claimed |-> 0, nFinally |-> 0,
   from |-> "", pending |-> 0, unc |-> FALSE, landed |-> <<>>]

\* ------------------------------------------------------------ the engine
\* A program keeps every try paired with its endtry and every catch and
\* finally inside them (the braces of the macros enforce it), so the
\* sxAssert of _sxLeaveTry (EXIT_NO_TRY_ON_LEAVE) and of _sxSetCaught
\* (EXIT_OUTSIDE_CAUGHT) hold wherever they are evaluated.

\* sxAddTraceEntry without its  nextTrace < MAX_TRACE  test.
sxAddTraceEntryNoCap(tr, entry) == Append(tr, entry)

\* sxAddTraceEntry: file[] and message[] are arrays, so the "anything set"
\* test is always true; an entry beyond MAX_TRACE is dropped.
sxAddTraceEntry(tr, entry) ==
  IF Len(tr) < MAX_TRACE THEN Append(tr, entry) ELSE tr

\* longjmp(buf, code > 0 ? code : 1)
JumpValue(code) == IF code > 0 THEN code ELSE 1

\* The exit status without its cap.
UncaughtExitNoCap(code) == EXIT_UNCAUGHT + code

\* exit(exitCode > 254 ? 254 : exitCode) with exitCode = EXIT_UNCAUGHT + code
UncaughtExit(code) ==
  IF EXIT_UNCAUGHT + code > EXIT_CAP THEN EXIT_CAP ELSE EXIT_UNCAUGHT + code

\* The frame a longjmp lands in: setjmp returns code, the if of try is
\* false, control is at the first clause of the else-if chain.  The frame
\* remembers which of its blocks was left and whether the uncatchable flag
\* was set at that moment.
Landed(cx, code, unc) ==
  [cx EXCEPT !.pc = "clause", !.k = 1,
             !.from = cx.pc, !.pending = code, !.unc = @ \/ unc,
             !.landed = Append(@, cx.pc)]

\* _throw with longjmp aimed at contexts[nextContext - 2]: the innermost
\* frame is skipped and dropped.
ThrowSkipsFrame(entry, cs, tr, hu) ==
  LET unc == hu \/ entry.uncatchable
      n == Len(cs)
  IN /\ trace' = sxAddTraceEntry(tr, entry)
     /\ hasUncatchable' = unc
     /\ IF n < 2
          THEN /\ exitCode' = UncaughtExit(entry.code)
               /\ contexts' = cs
               /\ UNCHANGED sxLastJumpCode
          ELSE /\ contexts' = [SubSeq(cs, 1, n - 1) EXCEPT ![n - 1] =
                                 Landed(cs[n - 1], JumpValue(entry.code), unc)]
               /\ sxLastJumpCode' = JumpValue(entry.code)
               /\ UNCHANGED exitCode

\* _throw(entry), entered with the frames cs, the trace tr and the
\* uncatchable flag hu (its callers pop a frame or clear the trace first).
\* With a frame left, longjmp returns to its setjmp and _sxEnterTry2(code)
\* stores the code (its runaway guard ends the process instead).
Throw(entry, cs, tr, hu) ==
  LET unc == hu \/ entry.uncatchable
      n == Len(cs)
  IN /\ trace' = sxAddTraceEntry(tr, entry)
     /\ hasUncatchable' = unc
     /\ IF n < 1
          THEN /\ exitCode' = UncaughtExit(entry.code)
               /\ contexts' = cs
               /\ UNCHANGED sxLastJumpCode
          ELSE IF cs[n].caught < TOO_NESTED_LIMIT
            THEN /\ contexts' = [cs EXCEPT ![n] =
                                   Landed(cs[n], JumpValue(entry.code), unc)]
                 /\ sxLastJumpCode' = JumpValue(entry.code)
                 /\ UNCHANGED exitCode
            ELSE /\ exitCode' = EXIT_TOO_NESTED
                 /\ contexts' = cs
                 /\ UNCHANGED sxLastJumpCode

\* try: _sxEnterTry, setjmp returning 0, _sxEnterTry2(0); the body is
\* entered.
EnterTry ==
  /\ InUserCode
  /\ nextContext < MaxDepth
  /\ IF nextContext < MAX_TRY_CATCH
       THEN /\ contexts' = Append(contexts, NewContext)
            /\ sxLastJumpCode' = 0
            /\ UNCHANGED <<trace, hasUncatchable, exitCode>>
       ELSE /\ exitCode' = EXIT_MAX_TRIES
            /\ UNCHANGED <<contexts, sxLastJumpCode, trace, hasUncatchable>>
  /\ UNCHANGED <<thrVars, objVars>>

\* _sxSetCaught with  if (caught == 1)  of the catch branch widened to
\* if (caught <= 2): a second clause may take the frame.
sxSetCaughtTwice(caught, isFinally) ==
  LET c == caught + 1
  IN IF ~isFinally
       THEN IF c <= 2 THEN [ret |-> TRUE, caught |-> c, clear |-> TRUE]
                      ELSE [ret |-> FALSE, caught |-> c, clear |-> FALSE]
       ELSE IF c < FINALLY_THRESHOLD
              THEN [ret |-> TRUE, caught |-> FINALLY_THRESHOLD, clear |-> FALSE]
              ELSE [ret |-> FALSE, caught |-> c, clear |-> FALSE]

\* _sxSetCaught without the  caught < FINALLY_THRESHOLD  test of the
\* finally branch: finally is entered whenever its if is reached.
sxSetCaughtNoThreshold(caught, isFinally) ==
  LET c == caught + 1
  IN IF ~isFinally
       THEN IF c = 1 THEN [ret |-> TRUE, caught |-> c, clear |-> TRUE]
                     ELSE [ret |-> FALSE, caught |-> c, clear |-> FALSE]
       ELSE [ret |-> TRUE, caught |-> FINALLY_THRESHOLD, clear |-> FALSE]

\* _sxSetCaught(isFinally) on a frame whose counter is caught: the value
\* returned, the counter afterwards, and whether _sxLastJumpCode is zeroed.
sxSetCaught(caught, isFinally) ==
  LET c == caught + 1
  IN IF ~isFinally
       THEN IF c = 1 THEN [ret |-> TRUE, caught |-> c, clear |-> TRUE]
                     ELSE [ret |-> FALSE, caught |-> c, clear |-> FALSE]
       ELSE IF c < FINALLY_THRESHOLD
              THEN [ret |-> TRUE, caught |-> FINALLY_THRESHOLD, clear |-> FALSE]
              ELSE [ret |-> FALSE, caught |-> c, clear |-> FALSE]

\* The clause at position k of the region's else-if chain: the clause
\* already read there, or any clause when control reaches the position for
\* the first time.
ClauseAt(cx) ==
  IF cx.k <= Len(cx.clauses) THEN {cx.clauses[cx.k]}
  ELSE IF cx.open /\ Len(cx.clauses) < MaxClauses THEN ClauseKinds
  ELSE {}

\* catch(n) without its  _sxLastJumpCode == (n)  test.
ClauseCallsAny(n, ljc) == TRUE

\* catch(n) is  else if (_sxLastJumpCode == (n) && _sxSetCaught(0)),
\* catchall is  else if (_sxSetCaught(0)).
ClauseCalls(n, ljc) == n = CATCHALL \/ ljc = n

\* One clause of the else-if chain is evaluated.
CatchClause ==
  /\ Running /\ nextContext > 0 /\ Top.pc = "clause"
  /\ \E n \in ClauseAt(Top) :
       LET cx == [Top EXCEPT !.clauses = IF Top.k <= Len(@) THEN @
                                          ELSE Append(@, n)]
           called == ClauseCalls(n, sxLastJumpCode)
           r == sxSetCaught(cx.caught, FALSE)
       IN IF called /\ r.ret
            THEN /\ contexts' = [contexts EXCEPT ![nextContext] =
                      [cx EXCEPT !.caught = r.caught, !.pc = "catch", !.k = 0,
                                 !.claimed = sxLastJumpCode, !.pending = 0]]
                 /\ sxLastJumpCode' = IF r.clear THEN 0 ELSE sxLastJumpCode
            ELSE /\ contexts' = [contexts EXCEPT ![nextContext] =
                      [cx EXCEPT !.caught = IF called THEN r.caught ELSE @,
                                 !.k = @ + 1]]
                 /\ UNCHANGED sxLastJumpCode
  /\ UNCHANGED <<trace, hasUncatchable, exitCode>>
  /\ UNCHANGED <<thrVars, objVars>>

\* Where control goes when the if/else-if chain is over: the if of finally
\* when the region has one, else endtry.
AfterChain(cx) ==
  IF cx.fin = "?" THEN {[cx EXCEPT !.fin = "yes", !.pc = "fin", !.k = 0],
                        [cx EXCEPT !.fin = "no", !.pc = "endtry", !.k = 0]}
  ELSE {[cx EXCEPT !.pc = IF cx.fin = "yes" THEN "fin" ELSE "endtry",
                   !.k = 0]}

\* The else-if chain is exhausted without a clause taking the exception.
NoClause ==
  /\ Running /\ nextContext > 0 /\ Top.pc = "clause"
  /\ Top.k > Len(Top.clauses)
  /\ \E cx \in AfterChain([Top EXCEPT !.open = FALSE]) :
       contexts' = [contexts EXCEPT ![nextContext] = cx]
  /\ UNCHANGED <<sxLastJumpCode, trace, hasUncatchable, exitCode>>
  /\ UNCHANGED <<thrVars, objVars>>

\* A try body or a catch body runs to its closing brace.
BlockEnd ==
  /\ Running /\ nextContext > 0 /\ Top.pc \in {"try", "catch"}
  /\ \E cx \in AfterChain(Top) :
       contexts' = [contexts EXCEPT ![nextContext] = cx]
  /\ UNCHANGED <<sxLastJumpCode, trace, hasUncatchable, exitCode>>
  /\ UNCHANGED <<thrVars, objVars>>

\* finally: if (_sxSetCaught(1)) { ... }
Finally ==
  /\ Running /\ nextContext > 0 /\ Top.pc = "fin"
  /\ LET r == sxSetCaught(Top.caught, TRUE)
     IN contexts' = [contexts EXCEPT ![nextContext] =
          [Top EXCEPT !.caught = r.caught,
                      !.pc = IF r.ret THEN "finally" ELSE "endtry",
                      !.nFinally = IF r.ret THEN @ + 1 ELSE @]]
  /\ UNCHANGED <<sxLastJumpCode, trace, hasUncatchable, exitCode>>
  /\ UNCHANGED <<thrVars, objVars>>

\* The finally body runs to its closing brace.
FinallyEnd ==
  /\ Running /\ nextContext > 0 /\ Top.pc = "finally"
  /\ contexts' = [contexts EXCEPT ![nextContext].pc = "endtry"]
  /\ UNCHANGED <<sxLastJumpCode, trace, hasUncatchable, exitCode>>
  /\ UNCHANGED <<thrVars, objVars>>

\* The entry _sxLeaveTry throws: {.code = _sxLastJumpCode}, message
\* "[UNCATCHABLE ]rethrown by ENDTRY"; its uncatchable field stays 0.
EndtryEntry ==
  [code |-> sxLastJumpCode, uncatchable |-> FALSE,
   message |-> IF hasUncatchable THEN "UNCATCHABLE rethrown by ENDTRY"
                                 ELSE "rethrown by ENDTRY"]

\* if (hasUncatchable || _sxLastJumpCode) in _sxLeaveTry
LeaveRethrows(hu, ljc) == hu \/ ljc # 0

\* endtry: _sxLeaveTry (--nextContext, then the rethrow when one is due).
LeaveTry ==
  /\ Running /\ nextContext > 0 /\ Top.pc = "endtry"
  /\ LET cs == SubSeq(contexts, 1, nextContext - 1)
     IN IF LeaveRethrows(hasUncatchable, sxLastJumpCode)
          THEN Throw(EndtryEntry, cs, trace, hasUncatchable)
          ELSE /\ contexts' = cs
               /\ UNCHANGED <<sxLastJumpCode, trace, hasUncatchable, exitCode>>
  /\ UNCHANGED <<thrVars, objVars>>

\* throw(entry): sxThrow = clearTrace() (the trace emptied, hasUncatchable
\* reset) and then _throw(entry).
sxThrow ==
  /\ InUserCode
  /\ \E entry \in UserEntries : Throw(entry, contexts, <<>>, FALSE)
  /\ UNCHANGED <<thrVars, objVars>>

\* The sxAssert of sxRethrow.
RethrowAllowed ==
  /\ nextContext > 0
  /\ sxLastJumpCode = 0
  /\ Top.caught < FINALLY_THRESHOLD

\* entryCopy of sxRethrow: a code below 1 is replaced by _sxLastJumpCode.
RethrowCode(code) == IF code < 1 THEN sxLastJumpCode ELSE code

\* rethrow(entry): sxRethrow.
sxRethrowEntry(entry) ==
  /\ InUserCode
  /\ nextTrace <= MaxRethrowTrace
  /\ IF RethrowAllowed
       THEN Throw([entry EXCEPT !.code = RethrowCode(entry.code)],
                  contexts, trace, hasUncatchable)
       ELSE /\ exitCode' = EXIT_OUTSIDE_RETHROW
            /\ UNCHANGED <<contexts, sxLastJumpCode, trace, hasUncatchable>>
  /\ UNCHANGED <<thrVars, objVars>>

sxRethrow == \E entry \in UserEntries : sxRethrowEntry(entry)

\* A null pointer; vtObject()'s parent.
NULL == 0

\* A NULL pointer to a method pointer.
NullSlot == [vt |-> NULL, offset |-> 0]

\* The record of the call into the class system: nothing was called yet.
NoResult ==
  [op |-> "none", args |-> <<>>, returned |-> FALSE, ret |-> 0,
   vt |-> NULL, method |-> NullSlot]

\* No call of sjNew or sjDel was made yet.
NoProc ==
  [fn |-> "none", pc |-> "idle", depth |-> 0, class |-> NULL, obj |-> NULL,
   o |-> NULL]

Init ==
  /\ contexts = <<>>
  /\ sxLastJumpCode = -1
  /\ trace = <<>>
  /\ hasUncatchable = FALSE
  /\ exitCode = -1
  /\ self = 1 /\ tls = <<>>
  /\ vts = <<>> /\ result = NoResult
  /\ heap = <<>> /\ proc = NoProc /\ history = <<>>
  /\ sjObjectsCreated = 0 /\ sjObjectsDeleted = 0 /\ calls = <<>>

Next ==
  \/ EnterTry
  \/ CatchClause
  \/ NoClause
  \/ BlockEnd
  \/ Finally
  \/ FinallyEnd
  \/ LeaveTry
  \/ sxRethrow
  \/ sxThrow

\* The engine alone: one thread, no objects.
Spec == Init /\ [][Next]_allVars

\* ----------------------------------------------------------------------
\* Deep programs: the recursion
\*   f() { try { ... f(); ... } catchall { ... } finally { ... } endtry }
\* Every region has the same text; regions nest in try bodies only, as
\* deep as the engine admits; the blocks throw or complete, and a catch
\* body may rethrow.
\* ----------------------------------------------------------------------

\* The frame of a region of f() at the start of its try body.
DeepContext ==
  [NewContext EXCEPT !.clauses = <<CATCHALL>>, !.open = FALSE, !.fin = "yes"]

\* The entries f() throws, throw(newex()) with errno 60 or 61, and the
\* entry it rethrows, rethrow(msgex("again")) with errno 0.
DeepThrown == {[code |-> c, uncatchable |-> FALSE, message |-> ""] : c \in {60, 61}}
DeepRethrown == [code |-> 0, uncatchable |-> FALSE, message |-> "again"]

\* The sxAssert of _sxEnterTry off by one: a 101st frame is admitted.
TryAllowedOffByOne(n) == n <= MAX_TRY_CATCH

\* The sxAssert of _sxEnterTry: nextContext < MAX_TRY_CATCH.
TryAllowed(n) == n < MAX_TRY_CATCH

\* try in the try body of f(), or f() called from the top level.
DeepEnterTry ==
  /\ Running
  /\ IF nextContext = 0 THEN TRUE ELSE Top.pc = "try"
  /\ IF TryAllowed(nextContext)
       THEN /\ contexts' = Append(contexts, DeepContext)
            /\ sxLastJumpCode' = 0
            /\ UNCHANGED <<trace, hasUncatchable, exitCode>>
       ELSE /\ exitCode' = EXIT_MAX_TRIES
            /\ UNCHANGED <<contexts, sxLastJumpCode, trace, hasUncatchable>>
  /\ UNCHANGED <<thrVars, objVars>>

\* throw(entry) in a block of f() or at the top level.
DeepThrow ==
  /\ InUserCode
  /\ \E entry \in DeepThrown : Throw(entry, contexts, <<>>, FALSE)
  /\ UNCHANGED <<thrVars, objVars>>

\* rethrow(entry) in the catchall body of f().
DeepRethrow ==
  /\ Running /\ nextContext > 0 /\ Top.pc = "catch"
  /\ IF RethrowAllowed
       THEN Throw([DeepRethrown EXCEPT !.code = RethrowCode(@)],
                  contexts, trace, hasUncatchable)
       ELSE /\ exitCode' = EXIT_OUTSIDE_RETHROW
            /\ UNCHANGED <<contexts, sxLastJumpCode, trace, hasUncatchable>>
  /\ UNCHANGED <<thrVars, objVars>>

DeepNext ==
  \/ DeepEnterTry
  \/ CatchClause
  \/ NoClause
  \/ BlockEnd
  \/ Finally
  \/ FinallyEnd
  \/ LeaveTry
  \/ DeepRethrow
  \/ DeepThrow

SpecDeep == Init /\ [][DeepNext]_allVars

\* ----------------------------------------------------------------------
\* Two threads, each running f() to a small depth.  The engine's state is
\* declared SX_THREAD_LOCAL, which saneobj.h defines as _Thread_local
\* before it includes saneex.h: contexts, _sxLastJumpCode, trace and
\* hasUncatchable name the running thread's instances.  exit() ends the
\* process, so exitCode belongs to both threads.
\* ----------------------------------------------------------------------
Threads == {1, 2}

\* The thread-local objects of the running thread.
ThreadLocal ==
  [contexts |-> contexts, sxLastJumpCode |-> sxLastJumpCode,
   trace |-> trace, hasUncatchable |-> hasUncatchable]

\* Their static initial values (Init) in a thread that has not run yet.
FreshThreadLocal ==
  [contexts |-> <<>>, sxLastJumpCode |-> -1,
   trace |-> <<>>, hasUncatchable |-> FALSE]

\* SX_THREAD_LOCAL defined empty (the default of saneex.h when nothing
\* defines it first): one instance for the process, so a thread finds what
\* the thread that ran before it left there.
NotThreadLocal(own, last) == last

\* SX_THREAD_LOCAL = _Thread_local: what the engine's variables denote in
\* a thread that starts running, given its own instances and the
\* instances of the thread that ran last.
ThreadLocalStorage(own, last) == own

\* The scheduler lets the other thread run.
Switch ==
  /\ Running
  /\ self' = 3 - self
  /\ tls' = [t \in {self} |-> ThreadLocal]
  /\ LET found == ThreadLocalStorage(tls[3 - self], ThreadLocal)
     IN /\ contexts' = found.contexts
        /\ sxLastJumpCode' = found.sxLastJumpCode
        /\ trace' = found.trace
        /\ hasUncatchable' = found.hasUncatchable
  /\ UNCHANGED <<exitCode, objVars>>

\* try of f() in the running thread.
ThreadEnterTry == nextContext < MaxThreadDepth /\ DeepEnterTry

\* throw(newex()) in a block of f() or at the top level of the running
\* thread, with errno 60 in thread 1 and 61 in thread 2.
ThreadThrow ==
  /\ InUserCode
  /\ Throw([code |-> 59 + self, uncatchable |-> FALSE, message |-> ""],
           contexts, <<>>, FALSE)
  /\ UNCHANGED <<thrVars, objVars>>

ThreadInit ==
  /\ contexts = <<>>
  /\ sxLastJumpCode = -1
  /\ trace = <<>>
  /\ hasUncatchable = FALSE
  /\ exitCode = -1
  /\ self = 1 /\ tls = [t \in Threads \ {1} |-> FreshThreadLocal]
  /\ vts = <<>> /\ result = NoResult
  /\ heap = <<>> /\ proc = NoProc /\ history = <<>>
  /\ sjObjectsCreated = 0 /\ sjObjectsDeleted = 0 /\ calls = <<>>

ThreadNext ==
  \/ Switch
  \/ ThreadEnterTry
  \/ CatchClause
  \/ NoClause
  \/ BlockEnd
  \/ Finally
  \/ FinallyEnd
  \/ LeaveTry
  \/ DeepRethrow
  \/ ThreadThrow

SpecThreads == ThreadInit /\ [][ThreadNext]_allVars

\* curex(): sxCurrentException returns trace[0], or an entry whose code is
\* -1 when the trace is empty; the code of the entry returned.
sxCurrentException(tr) == IF Len(tr) > 0 THEN tr[1].code ELSE -1

\* sxWalkTrace: func is called for trace[0 .. nextTrace-1] in order; the
\* entries visited.
sxWalkTrace(tr) == [i \in 1..Len(tr) |-> tr[i]]

\* ----------------------------------------------------------------------
\* Classes: the descriptors (Object_vt and the _vt structures that extend
\* it), sjHasClass, sjClassCast and sjInheritedMethod.
\* ----------------------------------------------------------------------

\* The words of a descriptor before its first method pointer: parent, size,
\* objectSize and className.
HeaderWords == 4

\* sizeof(void *) in words: sizes and offsets are counted in pointers.
ptrSize == 1

\* The addresses of the method bodies of a program.
MethodBodies == {1, 2}

\* What a method pointer of a descriptor holds: a body, or NULL for an
\* abstract method.
SlotValues == MethodBodies \cup {NULL}

\* The method pointers of a descriptor at the offset studied: none when
\* the class and its ancestors do not declare the method, else one.
SlotTables == {<<>>} \cup {<<b>> : b \in SlotValues}

\* A descriptor as linkvt fills it: size covers the header and the method
\* pointers, className names the class.
Descriptor(class, parent, slots) ==
  [parent |-> parent, size |-> HeaderWords + Len(slots) * ptrSize,
   className |-> class, slots |-> slots]

\* The programs' class hierarchies: class 1 is the root (parent NULL, as
\* vtObject), every other class links to a class defined before it, and a
\* descriptor starts with a copy of its parent's part, so that it has every
\* method pointer its parent has.
Hierarchies ==
  {h \in [1..MaxVts -> [parent : 0..MaxVts, size : {HeaderWords, HeaderWords + ptrSize},
                        className : 1..MaxVts, slots : SlotTables]] :
     /\ h[1].parent = NULL
     /\ \A c \in 1..MaxVts :
          /\ h[c] = Descriptor(c, h[c].parent, h[c].slots)
          /\ c > 1 => /\ h[c].parent \in 1..(c - 1)
                      /\ Len(h[c].slots) >= Len(h[h[c].parent].slots)}

\* An object: its first field points to the descriptor of its class.
Objects == [vt : 1..MaxVts]

\* The address of the method pointer at an offset of a descriptor.
SlotAddress(vt, vtOffset) == [vt |-> vt, offset |-> vtOffset]

\* The offsets of vtMethod from vt that the programs pass: before vt, the
\* first method pointer, and the word after it.
Offsets == {-1, HeaderWords, HeaderWords + ptrSize}

\* *ptr for ptr = vt + vtOffset, a method pointer of the descriptor.
Deref(h, vt, vtOffset) == h[vt].slots[(vtOffset - HeaderWords) \div ptrSize + 1]

\* sjHasClass with the walk cut after the object's own descriptor.
sjHasClassOwnOnly(h, obj, vt) == IF obj.vt = vt THEN 1 ELSE 0

\* sjHasClass: do { if (ovt == vt) return 1; } while ((ovt = ovt->parent));
\* return 0.
RECURSIVE HasClassWalk(_, _, _)
HasClassWalk(h, ovt, vt) ==
  IF ovt = vt THEN 1
  ELSE IF h[ovt].parent # NULL THEN HasClassWalk(h, h[ovt].parent, vt)
  ELSE 0

sjHasClass(h, obj, vt) == HasClassWalk(h, obj.vt, vt)

\* newex(): an entry with the code errno, not uncatchable, no message.
newex(errno) == [code |-> errno, uncatchable |-> FALSE, message |-> ""]

\* sxprintf that leaves the arguments out of the message.
sxprintfNoArgs(entry, fmt, args) == [entry EXCEPT !.message = <<fmt>>]

\* sxprintf: the entry with the format and its arguments printed into
\* message.
sxprintf(entry, fmt, args) == [entry EXCEPT !.message = <<fmt>> \o args]

\* The sjInheritedMethod walk that returns an ancestor as soon as the body
\* was found, whatever its method pointer holds.
RECURSIVE InheritedWalkAnyAncestor(_, _, _, _, _)
InheritedWalkAnyAncestor(h, vt, vtOffset, methodBody, foundMethod) ==
  LET ptr == Deref(h, vt, vtOffset)
      parent == h[vt].parent
  IN IF foundMethod
       THEN [threw |-> FALSE, vt |-> vt,
             method |-> IF ptr = NULL THEN NullSlot
                        ELSE SlotAddress(vt, vtOffset)]
       ELSE IF IF parent = NULL THEN FALSE
               ELSE h[parent].size - ptrSize >= vtOffset
         THEN InheritedWalkAnyAncestor(h, parent, vtOffset, methodBody,
                                       ptr = methodBody)
         ELSE [threw |-> ptr # methodBody, vt |-> NULL, method |-> NullSlot]

\* The sjInheritedMethod walk that reports an abstract (NULL) ancestor slot
\* as it reports the end of the chain: no descriptor, no slot.
RECURSIVE InheritedWalkAbstractAsNone(_, _, _, _, _)
InheritedWalkAbstractAsNone(h, vt, vtOffset, methodBody, foundMethod) ==
  LET ptr == Deref(h, vt, vtOffset)
      parent == h[vt].parent
      found == foundMethod \/ ptr = methodBody
  IN IF foundMethod /\ ptr = NULL
       THEN [threw |-> FALSE, vt |-> NULL, method |-> NullSlot]
       ELSE IF foundMethod /\ ptr # methodBody
         THEN [threw |-> FALSE, vt |-> vt, method |-> SlotAddress(vt, vtOffset)]
         ELSE IF IF parent = NULL THEN FALSE
                 ELSE h[parent].size - ptrSize >= vtOffset
           THEN InheritedWalkAbstractAsNone(h, parent, vtOffset, methodBody,
                                            found)
           ELSE [threw |-> ~found, vt |-> NULL, method |-> NullSlot]

\* The do-while of sjInheritedMethod from the descriptor vt on: what it
\* returns, or that it throws "methodBody doesn't belong to any vt in the
\* chain".
RECURSIVE InheritedWalk(_, _, _, _, _)
InheritedWalk(h, vt, vtOffset, methodBody, foundMethod) ==
  LET ptr == Deref(h, vt, vtOffset)
      parent == h[vt].parent
      found == foundMethod \/ ptr = methodBody
  IN IF foundMethod /\ ptr = NULL
       THEN [threw |-> FALSE, vt |-> vt, method |-> NullSlot]
       ELSE IF foundMethod /\ ptr # methodBody
         THEN [threw |-> FALSE, vt |-> vt, method |-> SlotAddress(vt, vtOffset)]
         ELSE IF IF parent = NULL THEN FALSE
                 ELSE h[parent].size - ptrSize >= vtOffset
           THEN InheritedWalk(h, parent, vtOffset, methodBody, found)
           ELSE [threw |-> ~found, vt |-> NULL, method |-> NullSlot]

\* The argument check of sjInheritedMethod that lets a NULL body pass.
BadArgumentsBodyUnchecked(h, vt, vtOffset, methodBody) ==
  vtOffset < 0 \/ vtOffset > h[vt].size - ptrSize

\* The argument check of sjInheritedMethod: vtMethod < vt, vtOffset >
\* vt->size - ptrSize, or !methodBody.
BadArguments(h, vt, vtOffset, methodBody) ==
  vtOffset < 0 \/ vtOffset > h[vt].size - ptrSize \/ methodBody = NULL

\* sjInheritedMethod(vt, vtMethod, methodBody) with vtMethod at vtOffset
\* from vt.
sjInheritedMethod(h, vt, vtOffset, methodBody) ==
  IF BadArguments(h, vt, vtOffset, methodBody)
    THEN [threw |-> TRUE, vt |-> NULL, method |-> NullSlot]
    ELSE InheritedWalk(h, vt, vtOffset, methodBody, FALSE)

\* Where the programs call into the class system: once, at the top level
\* or in the body of a try.
CallSite ==
  /\ Running
  /\ result = NoResult
  /\ IF nextContext = 0 THEN TRUE ELSE Top.pc = "try"

\* try { ... } catchall { ... } finally { ... } endtry around the call.
ObjEnterTry == nextContext = 0 /\ result = NoResult /\ DeepEnterTry

\* r = sjHasClass(obj, vt).
HasClass ==
  /\ CallSite
  /\ \E obj \in Objects, vt \in 1..MaxVts :
       result' = [NoResult EXCEPT !.op = "sjHasClass", !.args = <<obj.vt, vt>>,
                    !.returned = TRUE, !.ret = sjHasClass(vts, obj, vt)]
  /\ UNCHANGED <<vars, thrVars, vts, heap, proc, history, trkVars>>

\* as(obj, Class): sjClassCast(obj, vt) returns obj, or throws.
sjClassCast ==
  /\ CallSite
  /\ \E obj \in Objects, vt \in 1..MaxVts :
       IF sjHasClass(vts, obj, vt) # 0
         THEN /\ result' = [NoResult EXCEPT !.op = "sjClassCast",
                              !.args = <<obj.vt, vt>>, !.returned = TRUE,
                              !.vt = obj.vt]
              /\ UNCHANGED vars
         ELSE /\ result' = [NoResult EXCEPT !.op = "sjClassCast",
                              !.args = <<obj.vt, vt>>]
              /\ Throw(sxprintf(newex(0),
                         "Object of class %s cannot be cast to %s.",
                         <<vts[obj.vt].className, vts[vt].className>>),
                       contexts, <<>>, FALSE)
  /\ UNCHANGED <<thrVars, vts, heap, proc, history, trkVars>>

\* inherited(Class, method) in a method body: sjInheritedMethod returns
\* the descriptor and the method pointer, or throws.
inherited ==
  /\ CallSite
  /\ \E vt \in 1..MaxVts, vtOffset \in Offsets, methodBody \in SlotValues :
       LET inh == sjInheritedMethod(vts, vt, vtOffset, methodBody)
           call == [NoResult EXCEPT !.op = "sjInheritedMethod",
                      !.args = <<vt, vtOffset, methodBody>>]
       IN IF inh.threw
            THEN /\ result' = call
                 /\ Throw(sxprintf(newex(0),
                            IF BadArguments(vts, vt, vtOffset, methodBody)
                              THEN "sjInheritedMethod(%s): vtMethod doesn't belong to vt."
                              ELSE "sjInheritedMethod(%s): methodBody doesn't belong to any vt in the chain.",
                            <<vts[vt].className>>),
                          contexts, <<>>, FALSE)
            ELSE /\ result' = [call EXCEPT !.returned = TRUE, !.vt = inh.vt,
                                 !.method = inh.method]
                 /\ UNCHANGED vars
  /\ UNCHANGED <<thrVars, vts, heap, proc, history, trkVars>>

\* The address of the first word of the descriptor of class 1; the
\* descriptors of the other classes follow at multiples of it.  No method
\* body has such an address.
VtAddress == 100

\* A pointer to a method pointer as a plain pointer (const void *): NULL,
\* or the address of the descriptor plus the offset.
AddressOf(slot) ==
  IF slot = NullSlot THEN NULL ELSE VtAddress * slot.vt + slot.offset

\* The while (1) of sjBaseMethod with lastInh = {lastVt, lastMethod}: what
\* it returns, or that sjInheritedMethod threw.  lastInh.method is handed to
\* sjInheritedMethod as methodBody.
RECURSIVE BaseLoop(_, _, _, _, _)
BaseLoop(h, vt, vtOffset, lastVt, lastMethod) ==
  LET inh == sjInheritedMethod(h, vt, vtOffset, lastMethod)
  IN IF inh.threw
       THEN [threw |-> TRUE, vt |-> NULL, method |-> NULL]
       ELSE IF inh.method = NullSlot
         THEN IF inh.vt # NULL
                THEN [threw |-> FALSE, vt |-> inh.vt, method |-> NULL]
                ELSE [threw |-> FALSE, vt |-> lastVt, method |-> lastMethod]
         ELSE BaseLoop(h, vt, vtOffset, inh.vt, AddressOf(inh.method))

\* sjBaseMethod(vt, vtMethod) with vtMethod at vtOffset from vt:
\* methodBody = *vtMethod, lastInh = {vt, methodBody}, then the loop.
sjBaseMethodOf(h, vt, vtOffset) ==
  BaseLoop(h, vt, vtOffset, vt, Deref(h, vt, vtOffset))

\* sjBaseMethod(o->vt, &o->vt->method) for a method of the class: the
\* descriptor and the method it returns (method as a plain pointer), or
\* the exception of sjInheritedMethod.
sjBaseMethod ==
  /\ CallSite
  /\ \E vt \in 1..MaxVts :
       /\ Len(vts[vt].slots) > 0
       /\ LET base == sjBaseMethodOf(vts, vt, HeaderWords)
              call == [NoResult EXCEPT !.op = "sjBaseMethod",
                         !.args = <<vt, HeaderWords>>]
          IN IF base.threw
               THEN /\ result' = call
                    /\ Throw(sxprintf(newex(0),
                               IF Deref(vts, vt, HeaderWords) = NULL
                                 THEN "sjInheritedMethod(%s): vtMethod doesn't belong to vt."
                                 ELSE "sjInheritedMethod(%s): methodBody doesn't belong to any vt in the chain.",
                               <<vts[vt].className>>),
                             contexts, <<>>, FALSE)
               ELSE /\ result' = [call EXCEPT !.returned = TRUE,
                                    !.vt = base.vt, !.ret = base.method]
                    /\ UNCHANGED vars
  /\ UNCHANGED <<thrVars, vts, heap, proc, history, trkVars>>

ObjInit ==
  /\ contexts = <<>>
  /\ sxLastJumpCode = -1
  /\ trace = <<>>
  /\ hasUncatchable = FALSE
  /\ exitCode = -1
  /\ self = 1 /\ tls = <<>>
  /\ vts \in Hierarchies /\ result = NoResult
  /\ heap = <<>> /\ proc = NoProc /\ history = <<>>
  /\ sjObjectsCreated = 0 /\ sjObjectsDeleted = 0 /\ calls = <<>>

ObjNext ==
  \/ ObjEnterTry
  \/ HasClass
  \/ sjClassCast
  \/ inherited
  \/ sjBaseMethod
  \/ CatchClause
  \/ BlockEnd
  \/ Finally
  \/ FinallyEnd
  \/ LeaveTry

\* A program over a class hierarchy that makes one call into the class
\* system, at the top level or in a try with catchall and finally.
SpecObjects == ObjInit /\ [][ObjNext]_allVars

\* ----------------------------------------------------------------------
\* Objects: sjNew, sjDel, Autoref's take and release.
\* ----------------------------------------------------------------------

\* The classes of the programs: Object, Autoref (extends Object), Fruit
\* (extends Object) and YesNo (extends Autoref), in the order in which
\* their descriptors are linked.
vtObject == 1
vtAutoref == 2
vtFruit == 3
vtYesNo == 4

\* The descriptors of these classes (the method pointers play no part
\* here).
LifeVts ==
  <<Descriptor(vtObject, NULL, <<>>), Descriptor(vtAutoref, vtObject, <<>>),
    Descriptor(vtFruit, vtObject, <<>>), Descriptor(vtYesNo, vtAutoref, <<>>)>>

\* The objects of a program: the buffer that sjNew allocates, and an
\* object that exists before (a Fruit, or the YesNo that YesNo_new hands
\* out again).
allocated == 1
existing == 2

\* An object: its class (NULL until setvt), refs, whether its memory is
\* allocated, and what was done to it: sjFree calls, destructor calls, and
\* accesses to it after it was freed.
NoObject ==
  [vt |-> NULL, refs |-> 0, live |-> FALSE, frees |-> 0, dels |-> 0,
   stale |-> 0]

\* sjAlloc(size): calloc, the memory zeroed.
sjAlloc(h, obj) == [h EXCEPT ![obj] = [NoObject EXCEPT !.live = TRUE]]

\* sjFree that does nothing.
sjFreeForgets(h, obj) == h

\* sjFree(obj): free.
sjFree(h, obj) == [h EXCEPT ![obj].live = FALSE, ![obj].frees = @ + 1]

\* A read or write of a field of obj: after free it is a stale access.
Touch(h, obj) ==
  IF h[obj].live THEN h ELSE [h EXCEPT ![obj].stale = @ + 1]

\* Autoref_take: atomic_fetch_add(&o->refs, 1); the value returned and
\* refs afterwards.
Autoref_take(refs) == [ret |-> refs, refs |-> refs + 1]

\* A release that returns the count as it is after the decrement.
Autoref_releaseNewValue(refs) == [ret |-> refs - 1, refs |-> refs - 1]

\* A release that is not atomic: it returns the count it read earlier,
\* when one more owner was there.
Autoref_releaseStale(refs) == [ret |-> refs + 1, refs |-> refs - 1]

\* Autoref_release: atomic_fetch_sub(&o->refs, 1); the value returned and
\* refs afterwards.
Autoref_release(refs) == [ret |-> refs, refs |-> refs - 1]

\* makeEx(file, line): an entry with the code 0, not uncatchable.
makeEx == [code |-> 0, uncatchable |-> FALSE, message |-> <<>>]

\* What a constructor or a destructor throws: throw(msgex(...)) with errno
\* 0 or 60, or an uncatchable entry.
MethodThrows ==
  [code : ThrowCodes, uncatchable : BOOLEAN, message : {<<"msgex">>}]

\* The try of sjDel without its finally.
DelRegionNoFinally ==
  [NewContext EXCEPT !.clauses = <<>>, !.open = FALSE, !.fin = "no"]

\* The region of sjNew, try { o = ctor(...) } catchall { ... } endtry, and
\* of sjDel, try { o->vt->del(o) } finally { ... } endtry.
NewRegion ==
  [NewContext EXCEPT !.clauses = <<CATCHALL>>, !.open = FALSE, !.fin = "no"]
DelRegion ==
  [NewContext EXCEPT !.clauses = <<>>, !.open = FALSE, !.fin = "yes"]

\* try of the library: _sxEnterTry, setjmp returning 0, _sxEnterTry2(0).
LibEnterTry(region) ==
  IF TryAllowed(nextContext)
    THEN /\ contexts' = Append(contexts, region)
         /\ sxLastJumpCode' = 0
         /\ UNCHANGED <<trace, hasUncatchable, exitCode>>
    ELSE /\ exitCode' = EXIT_MAX_TRIES
         /\ UNCHANGED <<contexts, sxLastJumpCode, trace, hasUncatchable>>

\* Control is in the region of sjNew or sjDel.
InLibrary == proc.fn # "none" /\ nextContext > proc.depth

\* sjNew or sjDel is running outside its region: between sjHasClass and
\* release, or between endtry and return.
PendingReturn ==
  proc.pc \in {"release", "ctorDone", "delDone"} /\ nextContext = proc.depth

\* The caller's code runs: at the top level or in the body of its try,
\* and no call of sjNew or sjDel was made yet.
LifeCallSite ==
  /\ Running
  /\ proc = NoProc
  /\ IF nextContext = 0 THEN TRUE ELSE Top.pc = "try"

\* try { ... } catchall { ... } finally { ... } endtry of the caller.
LifeEnterTry ==
  nextContext = 0 /\ proc = NoProc /\ history = <<>> /\ DeepEnterTry

\* newobj(Class): sjNew up to the constructor call.  sjAlloc returns the
\* zeroed buffer, or NULL and sjNew throws; then try.
NewCall ==
  /\ LifeCallSite
  /\ \E class \in {vtFruit, vtAutoref, vtYesNo}, ok \in BOOLEAN :
       IF ok
         THEN /\ heap' = sjAlloc(heap, allocated)
              /\ proc' = [NoProc EXCEPT !.fn = "sjNew", !.pc = "ctor",
                            !.depth = nextContext, !.class = class,
                            !.obj = allocated]
              /\ LibEnterTry(NewRegion)
         ELSE /\ proc' = [NoProc EXCEPT !.fn = "sjNew", !.pc = "threw",
                            !.depth = nextContext, !.class = class]
              /\ Throw(sxprintf(makeEx, "sjAlloc(%d) error.", <<>>),
                       contexts, <<>>, FALSE)
              /\ UNCHANGED heap
  /\ UNCHANGED <<thrVars, vts, result, history, trkVars>>

\* The objects that newobj has created before the program's call: the
\* existing object.
Earlier == 1

\* The tracking state: the two counters and the calls made.
Tracked ==
  [created |-> sjObjectsCreated, deleted |-> sjObjectsDeleted,
   calls |-> calls]

\* A call of a constructor, destructor or callback is noted.
Called(tr, fn) == [tr EXCEPT !.calls = Append(@, fn)]

\* Tracking that counts whatever the constructor returned.
sjNewTracksAny(tr, o) ==
  [Called(tr, "sjCreating") EXCEPT !.created = @ + 1]

\* SJ_TRACE_LIFE in sjNew, after o = ctor(...): if (o == allocated) {
\* sjCreating(o); ++sjObjectsCreated; }
sjNewTracks(tr, o) ==
  IF o = allocated
    THEN [Called(tr, "sjCreating") EXCEPT !.created = @ + 1]
    ELSE tr

\* SJ_TRACE_LIFE in sjDel, before o->vt->del(o): ++sjObjectsDeleted;
\* sjDeleting(o).
sjDelTracks(tr) == [Called(tr, "sjDeleting") EXCEPT !.deleted = @ + 1]

\* The tracking state becomes tr.
Track(tr) ==
  /\ sjObjectsCreated' = tr.created
  /\ sjObjectsDeleted' = tr.deleted
  /\ calls' = tr.calls

\* o = ctor(allocated, params) in the try of sjNew.  The constructor sets
\* the class of the buffer and returns it (YesNo_new takes it first;
\* Autoref_new and the others do not), or returns NULL, or returns the
\* existing object in its place, or throws.
Ctor ==
  /\ Running /\ proc.pc = "ctor" /\ InLibrary /\ Top.pc = "try"
  /\ \/ /\ heap' = [heap EXCEPT
                      ![allocated].vt = proc.class,
                      ![allocated].refs =
                         IF proc.class = vtYesNo THEN Autoref_take(@).refs
                                                 ELSE @]
        /\ proc' = [proc EXCEPT !.pc = "ctorDone", !.o = allocated]
        /\ Track(sjNewTracks(Called(Tracked, "new"), allocated))
        /\ UNCHANGED vars
     \/ /\ proc' = [proc EXCEPT !.pc = "ctorDone", !.o = NULL]
        /\ Track(sjNewTracks(Called(Tracked, "new"), NULL))
        /\ UNCHANGED <<vars, heap>>
     \/ /\ proc' = [proc EXCEPT !.pc = "ctorDone", !.o = existing]
        /\ Track(sjNewTracks(Called(Tracked, "new"), existing))
        /\ UNCHANGED <<vars, heap>>
     \/ /\ \E entry \in MethodThrows : Throw(entry, contexts, <<>>, FALSE)
        /\ proc' = [proc EXCEPT !.pc = "ctorThrew"]
        /\ Track(Called(Tracked, "new"))
        /\ UNCHANGED heap
  /\ UNCHANGED <<thrVars, vts, result, history>>

\* The catchall body of sjNew: sjFree(allocated), then sxRethrow of
\* "ctor(%p) error.".
NewCatch ==
  /\ Running /\ proc.fn = "sjNew" /\ InLibrary /\ Top.pc = "catch"
  /\ heap' = sjFree(heap, allocated)
  /\ proc' = [proc EXCEPT !.pc = "rethrown"]
  /\ IF RethrowAllowed
       THEN Throw([sxprintf(makeEx, "ctor(%p) error.", <<>>)
                     EXCEPT !.code = RethrowCode(@)],
                  contexts, trace, hasUncatchable)
       ELSE /\ exitCode' = EXIT_OUTSIDE_RETHROW
            /\ UNCHANGED <<contexts, sxLastJumpCode, trace, hasUncatchable>>
  /\ UNCHANGED <<thrVars, vts, result, history, trkVars>>

\* sjNew that leaves the buffer alone when the constructor returned
\* another object.
NewAfterTryKeepsBuffer(h, o) == h

\* sjNew after endtry: if (o != allocated) sjFree(allocated).
NewAfterTry(h, o) == IF o # allocated THEN sjFree(h, allocated) ELSE h

\* sjNew after endtry: the buffer is freed when the constructor returned
\* something else; NULL, and an object that does not extend Autoref, are
\* answered with an exception; otherwise o is returned.
NewReturn ==
  /\ Running /\ proc.pc = "ctorDone" /\ PendingReturn
  /\ LET o == proc.o
         h == NewAfterTry(heap, o)
         call == [NoResult EXCEPT !.op = "sjNew"]
     IN IF o = allocated
          THEN /\ heap' = h
               /\ result' = [call EXCEPT !.returned = TRUE, !.ret = o]
               /\ proc' = [proc EXCEPT !.pc = "returned"]
               /\ UNCHANGED vars
          ELSE IF o = NULL
            THEN /\ heap' = h
                 /\ result' = call
                 /\ proc' = [proc EXCEPT !.pc = "threw"]
                 /\ Throw(sxprintf(makeEx, "ctor(%p) returned NULL.", <<>>),
                          contexts, <<>>, FALSE)
            ELSE IF sjHasClass(LifeVts, [vt |-> h[o].vt], vtAutoref) = 0
              THEN /\ heap' = Touch(h, o)
                   /\ result' = call
                   /\ proc' = [proc EXCEPT !.pc = "threw"]
                   /\ Throw(sxprintf(makeEx,
                              "ctor(%p) returned a non-input object (%s at %p) that doesn't extend Autoref.",
                              <<LifeVts[h[o].vt].className>>),
                            contexts, <<>>, FALSE)
              ELSE /\ heap' = Touch(h, o)
                   /\ result' = [call EXCEPT !.returned = TRUE, !.ret = o]
                   /\ proc' = [proc EXCEPT !.pc = "returned"]
                   /\ UNCHANGED vars
  /\ UNCHANGED <<thrVars, vts, history, trkVars>>

\* delobj(obj): sjDel up to release.  sjRelease first asks sjHasClass(obj,
\* vtAutoref()); an object of another class goes on to the try.
DelCall ==
  /\ LifeCallSite
  /\ heap' = Touch(heap, existing)
  /\ IF sjHasClass(LifeVts, [vt |-> heap[existing].vt], vtAutoref) # 0
       THEN /\ proc' = [NoProc EXCEPT !.fn = "sjDel", !.pc = "release",
                          !.depth = nextContext, !.obj = existing]
            /\ UNCHANGED vars
       ELSE /\ proc' = [NoProc EXCEPT !.fn = "sjDel", !.pc = "del",
                          !.depth = nextContext, !.obj = existing]
            /\ LibEnterTry(DelRegion)
  /\ UNCHANGED <<thrVars, vts, result, history, trkVars>>

\* sjDel that goes on to destroy whatever release returned.
LastOwnerAlways(old) == TRUE

\* sjRelease: ar->vt->release(ar) == 1.
LastOwner(old) == old = 1

\* ar->vt->release(ar) of sjRelease, and the if of sjDel: return 0 unless
\* release returned 1, else try.
DelRelease ==
  /\ Running /\ proc.pc = "release"
  /\ LET r == Autoref_release(heap[proc.obj].refs)
     IN /\ heap' = [Touch(heap, proc.obj) EXCEPT ![proc.obj].refs = r.refs]
        /\ IF LastOwner(r.ret)
             THEN /\ proc' = [proc EXCEPT !.pc = "del"]
                  /\ LibEnterTry(DelRegion)
                  /\ UNCHANGED result
             ELSE /\ proc' = [proc EXCEPT !.pc = "returned"]
                  /\ result' = [NoResult EXCEPT !.op = "sjDel",
                                  !.returned = TRUE, !.ret = 0]
                  /\ UNCHANGED vars
  /\ UNCHANGED <<thrVars, vts, history, trkVars>>

\* The body of the try of sjDel: the tracking, then o->vt->del(o): the
\* destructor runs to its end, or throws partway.
Destructor ==
  /\ Running /\ proc.pc = "del" /\ InLibrary /\ Top.pc = "try"
  /\ heap' = [Touch(heap, proc.obj) EXCEPT ![proc.obj].dels = @ + 1]
  /\ Track(Called(sjDelTracks(Tracked), "del"))
  /\ \/ /\ proc' = [proc EXCEPT !.pc = "delDone"]
        /\ UNCHANGED vars
     \/ /\ proc' = [proc EXCEPT !.pc = "delThrew"]
        /\ \E entry \in MethodThrows : Throw(entry, contexts, <<>>, FALSE)
  /\ UNCHANGED <<thrVars, vts, result, history>>

\* The finally body of sjDel: sjFree(obj).
DelFinally ==
  /\ Running /\ proc.fn = "sjDel" /\ InLibrary /\ Top.pc = "finally"
  /\ heap' = sjFree(heap, proc.obj)
  /\ contexts' = [contexts EXCEPT ![nextContext].pc = "endtry"]
  /\ UNCHANGED <<sxLastJumpCode, trace, hasUncatchable, exitCode>>
  /\ UNCHANGED <<thrVars, vts, result, proc, history, trkVars>>

\* return 1 of sjDel.
DelReturn ==
  /\ Running /\ proc.pc = "delDone" /\ PendingReturn
  /\ proc' = [proc EXCEPT !.pc = "returned"]
  /\ result' = [NoResult EXCEPT !.op = "sjDel", !.returned = TRUE, !.ret = 1]
  /\ UNCHANGED <<vars, thrVars, vts, heap, history, trkVars>>

\* o->vt->take(o) and o->vt->release(o) on the existing object, an
\* Autoref, by the caller.
Take ==
  /\ LifeCallSite
  /\ sjHasClass(LifeVts, [vt |-> heap[existing].vt], vtAutoref) # 0
  /\ Len(SelectSeq(history, LAMBDA c : c.op = "take")) < MaxTakes
  /\ LET r == Autoref_take(heap[existing].refs)
     IN /\ heap' = [heap EXCEPT ![existing].refs = r.refs]
        /\ history' = Append(history, [op |-> "take", ret |-> r.ret])
  /\ UNCHANGED <<vars, thrVars, vts, result, proc, trkVars>>

Release ==
  /\ LifeCallSite
  /\ sjHasClass(LifeVts, [vt |-> heap[existing].vt], vtAutoref) # 0
  /\ Len(SelectSeq(history, LAMBDA c : c.op = "release")) < MaxTakes
  /\ LET r == Autoref_release(heap[existing].refs)
     IN /\ heap' = [heap EXCEPT ![existing].refs = r.refs]
        /\ history' = Append(history, [op |-> "release", ret |-> r.ret])
  /\ UNCHANGED <<vars, thrVars, vts, result, proc, trkVars>>

\* The closing brace of a try or catch body: of the caller's, or of the
\* try of sjNew or sjDel once the constructor or destructor has returned.
LifeBlockEnd ==
  /\ IF InLibrary THEN proc.pc \in {"ctorDone", "delDone"} /\ Top.pc = "try"
                  ELSE ~PendingReturn
  /\ BlockEnd

\* The closing brace of the caller's finally body.
LifeFinallyEnd == ~InLibrary /\ FinallyEnd

LifeInit ==
  /\ contexts = <<>>
  /\ sxLastJumpCode = -1
  /\ trace = <<>>
  /\ hasUncatchable = FALSE
  /\ exitCode = -1
  /\ self = 1 /\ tls = <<>>
  /\ vts = LifeVts /\ result = NoResult
  /\ \E class \in {vtFruit, vtAutoref, vtYesNo} :
       heap = <<NoObject, [NoObject EXCEPT !.live = TRUE, !.vt = class]>>
  /\ proc = NoProc /\ history = <<>>
  /\ sjObjectsCreated = Earlier /\ sjObjectsDeleted = 0 /\ calls = <<>>

LifeNext ==
  \/ LifeEnterTry
  \/ NewCall
  \/ Ctor
  \/ NewCatch
  \/ NewReturn
  \/ DelCall
  \/ DelRelease
  \/ Destructor
  \/ DelFinally
  \/ DelReturn
  \/ Take
  \/ Release
  \/ CatchClause
  \/ NoClause
  \/ LifeBlockEnd
  \/ Finally
  \/ LifeFinallyEnd
  \/ LeaveTry

\* A program that takes and releases an existing object and makes one call
\* of sjNew or sjDel, at the top level or in a try with catchall and
\* finally.
SpecLife == LifeInit /\ [][LifeNext]_allVars

\* ----------------------------------------------------------------------
\* Owners: two threads that each own the existing object and each give it
\* up once, by delobj or by release.
\* ----------------------------------------------------------------------

\* What a suspended thread keeps: its instances of the engine's variables,
\* its call of sjDel and what the call returned to it.
OwnerLocal == [local |-> ThreadLocal, proc |-> proc, result |-> result]

\* The scheduler lets the other thread run.
OwnerSwitch ==
  /\ Running
  /\ self' = 3 - self
  /\ tls' = [t \in {self} |-> OwnerLocal]
  /\ LET found == tls[3 - self]
         local == ThreadLocalStorage(found.local, ThreadLocal)
     IN /\ contexts' = local.contexts
        /\ sxLastJumpCode' = local.sxLastJumpCode
        /\ trace' = local.trace
        /\ hasUncatchable' = local.hasUncatchable
        /\ proc' = found.proc
        /\ result' = found.result
  /\ UNCHANGED <<exitCode, vts, heap, history, trkVars>>

\* try { ... } catchall { ... } finally { ... } endtry of the running
\* thread, around its call.
OwnerEnterTry == nextContext = 0 /\ proc = NoProc /\ DeepEnterTry

\* o->vt->release(o) by the running thread, which keeps what it returned.
OwnerRelease ==
  /\ LifeCallSite
  /\ LET r == Autoref_release(heap[existing].refs)
     IN /\ heap' = [Touch(heap, existing) EXCEPT ![existing].refs = r.refs]
        /\ result' = [NoResult EXCEPT !.op = "release", !.returned = TRUE,
                        !.ret = r.ret]
        /\ proc' = [NoProc EXCEPT !.fn = "release", !.pc = "returned",
                      !.depth = nextContext, !.obj = existing]
  /\ UNCHANGED <<vars, thrVars, vts, history, trkVars>>

\* The existing object is a YesNo with one reference for each thread.
OwnerInit ==
  /\ contexts = <<>>
  /\ sxLastJumpCode = -1
  /\ trace = <<>>
  /\ hasUncatchable = FALSE
  /\ exitCode = -1
  /\ self = 1
  /\ tls = [t \in Threads \ {1} |->
              [local |-> FreshThreadLocal, proc |-> NoProc,
               result |-> NoResult]]
  /\ vts = LifeVts /\ result = NoResult
  /\ heap = <<NoObject, [NoObject EXCEPT !.live = TRUE, !.vt = vtYesNo,
                                         !.refs = Cardinality(Threads)]>>
  /\ proc = NoProc /\ history = <<>>
  /\ sjObjectsCreated = Earlier /\ sjObjectsDeleted = 0 /\ calls = <<>>

OwnerNext ==
  \/ OwnerSwitch
  \/ OwnerEnterTry
  \/ DelCall
  \/ DelRelease
  \/ Destructor
  \/ DelFinally
  \/ DelReturn
  \/ OwnerRelease
  \/ CatchClause
  \/ NoClause
  \/ LifeBlockEnd
  \/ Finally
  \/ LifeFinallyEnd
  \/ LeaveTry

SpecOwners == OwnerInit /\ [][OwnerNext]_allVars

\* ----------------------------------------------------------------------
\* Linking: the first calls of the accessors vtFruit() and vtOrange() by
\* two threads.  The descriptors are static objects that every thread
\* reads and writes without a lock, one word at a time.
\* ----------------------------------------------------------------------

\* Orange extends Fruit.
vtOrange == 5

\* The classes that linkvt links, and linkvt's second argument.
Linkable == {vtFruit, vtOrange}
ParentOf(class) == IF class = vtOrange THEN vtFruit ELSE vtObject

\* The words of a descriptor after parent: size, objectSize, className,
\* new, del, and the method pointers eat, caloriesPerQuantity (Fruit_vt_)
\* and cut (Orange_vt_).
wSize == 1
wObjectSize == 2
wClassName == 3
wNew == 4
wDel == 5
wEat == 6
wCaloriesPerQuantity == 7
wCut == 8

\* sizeof(CLASS_vt) - the parent pointer and the words above - and
\* sizeof(CLASS), in pointers.
SizeofVt(class) ==
  IF class = vtOrange THEN 9 ELSE IF class = vtFruit THEN 8 ELSE 6
SizeofClass(class) ==
  IF class = vtOrange THEN 4 ELSE IF class = vtFruit THEN 3 ELSE 2

\* The address of a function: CLASS_new, Object_del, CLASS_method.
FunctionAt(class, word) == 10 * class + word

\* static CLASS_vt vt: zeroed storage.
StaticVt(class) ==
  [parent |-> NULL, words |-> [w \in 1..(SizeofVt(class) - 1) |-> NULL]]

\* A root descriptor whose parent is the descriptor itself.
ObjectVtOwnParent ==
  [parent |-> vtObject,
   words |-> <<SizeofVt(vtObject), SizeofClass(vtObject), vtObject,
               FunctionAt(vtObject, wNew), FunctionAt(vtObject, wDel)>>]

\* vtObject's static vt = {NULL, {sizeof(Object_vt), sizeof(Object),
\* "Object", Object_new, Object_del}}.
ObjectVt ==
  [parent |-> NULL,
   words |-> <<SizeofVt(vtObject), SizeofClass(vtObject), vtObject,
               FunctionAt(vtObject, wNew), FunctionAt(vtObject, wDel)>>]

\* The four assignments of linkvt after the copy: vt.size, vt.objectSize,
\* vt.className, vt.new.
LinkSets(class) ==
  <<[word |-> wSize, value |-> SizeofVt(class)],
    [word |-> wObjectSize, value |-> SizeofClass(class)],
    [word |-> wClassName, value |-> class],
    [word |-> wNew, value |-> FunctionAt(class, wNew)]>>

\* The block after linkvt(CLASS, PARENT): the assignments of method
\* pointers, in the order of the source.
LinkBody(class) ==
  IF class = vtOrange
    THEN <<[word |-> wCaloriesPerQuantity,
            value |-> FunctionAt(vtOrange, wCaloriesPerQuantity)],
           [word |-> wEat, value |-> FunctionAt(vtOrange, wEat)],
           [word |-> wCut, value |-> FunctionAt(vtOrange, wCut)]>>
    ELSE <<[word |-> wCaloriesPerQuantity,
            value |-> FunctionAt(vtFruit, wCaloriesPerQuantity)]>>

\* A thread that has made no call yet.
NoCalls == [stack |-> <<>>, got |-> NULL]

\* if (!vt.parent && ...): the descriptor counts as linked once its
\* parent pointer is set.
Linked(parent) == parent # NULL

\* return &vt of the running call of thread t: the caller's frame, if
\* any, goes on; the thread's own call hands it the descriptor.
LinkReturn(t) ==
  LET stack == tls[t].stack
      n == Len(stack)
  IN [stack |-> SubSeq(stack, 1, n - 1),
      got |-> IF n = 1 THEN stack[n].class ELSE tls[t].got]

\* Thread t calls vtFruit() or vtOrange().
LinkCall ==
  \E t \in Threads, class \in Linkable :
    /\ tls[t] = NoCalls
    /\ self' = t
    /\ tls' = [tls EXCEPT ![t].stack = <<[class |-> class, pc |-> "test",
                                          i |-> 0]>>]
    /\ UNCHANGED <<vars, objVars>>

\* if (!vt.parent && (vt.parent = vtPARENT(), ...: the test, and the
\* call of the parent's accessor (vtObject() returns its descriptor at
\* once).
LinkTest ==
  \E t \in Threads :
    /\ tls[t].stack # <<>>
    /\ LET stack == tls[t].stack
           n == Len(stack)
           class == stack[n].class
       IN /\ stack[n].pc = "test"
          /\ self' = t
          /\ IF Linked(vts[class].parent)
               THEN tls' = [tls EXCEPT ![t] = LinkReturn(t)]
               ELSE IF ParentOf(class) = vtObject
                 THEN tls' = [tls EXCEPT ![t].stack[n].pc = "assign"]
                 ELSE tls' = [tls EXCEPT ![t].stack =
                                Append([stack EXCEPT ![n].pc = "assign"],
                                       [class |-> ParentOf(class),
                                        pc |-> "test", i |-> 0])]
    /\ UNCHANGED <<vars, objVars>>

\* vt.parent = (what vtPARENT() returned).
LinkParent ==
  \E t \in Threads :
    /\ tls[t].stack # <<>>
    /\ LET n == Len(tls[t].stack)
           class == tls[t].stack[n].class
       IN /\ tls[t].stack[n].pc = "assign"
          /\ self' = t
          /\ vts' = [vts EXCEPT ![class].parent = ParentOf(class)]
          /\ tls' = [tls EXCEPT ![t].stack[n].pc = "copy",
                                ![t].stack[n].i = 1]
    /\ UNCHANGED <<vars, result, heap, proc, history, trkVars>>

\* vt.PARENT_vt_ = vt.parent->PARENT_vt_: the parent's words as they are
\* now, one word at a step.
LinkCopy ==
  \E t \in Threads :
    /\ tls[t].stack # <<>>
    /\ LET n == Len(tls[t].stack)
           class == tls[t].stack[n].class
           i == tls[t].stack[n].i
           from == vts[vts[class].parent].words
       IN /\ tls[t].stack[n].pc = "copy"
          /\ self' = t
          /\ vts' = [vts EXCEPT ![class].words[i] = from[i]]
          /\ IF i < Len(from)
               THEN tls' = [tls EXCEPT ![t].stack[n].i = i + 1]
               ELSE tls' = [tls EXCEPT ![t].stack[n].pc = "set",
                                       ![t].stack[n].i = 1]
    /\ UNCHANGED <<vars, result, heap, proc, history, trkVars>>

\* vt.size = ..., vt.objectSize = ..., vt.className = ..., vt.new = ...
LinkSet ==
  \E t \in Threads :
    /\ tls[t].stack # <<>>
    /\ LET n == Len(tls[t].stack)
           class == tls[t].stack[n].class
           i == tls[t].stack[n].i
           a == LinkSets(class)[i]
       IN /\ tls[t].stack[n].pc = "set"
          /\ self' = t
          /\ vts' = [vts EXCEPT ![class].words[a.word] = a.value]
          /\ IF i < Len(LinkSets(class))
               THEN tls' = [tls EXCEPT ![t].stack[n].i = i + 1]
               ELSE tls' = [tls EXCEPT ![t].stack[n].pc = "body",
                                       ![t].stack[n].i = 1]
    /\ UNCHANGED <<vars, result, heap, proc, history, trkVars>>

\* The assignments of the block, and after the last one return &vt.
LinkOverride ==
  \E t \in Threads :
    /\ tls[t].stack # <<>>
    /\ LET n == Len(tls[t].stack)
           class == tls[t].stack[n].class
           i == tls[t].stack[n].i
           a == LinkBody(class)[i]
       IN /\ tls[t].stack[n].pc = "body"
          /\ self' = t
          /\ vts' = [vts EXCEPT ![class].words[a.word] = a.value]
          /\ IF i < Len(LinkBody(class))
               THEN tls' = [tls EXCEPT ![t].stack[n].i = i + 1]
               ELSE tls' = [tls EXCEPT ![t] = LinkReturn(t)]
    /\ UNCHANGED <<vars, result, heap, proc, history, trkVars>>

\* The program starts: Object's descriptor is initialised statically, the
\* others are zeroed.
LinkInit ==
  /\ contexts = <<>>
  /\ sxLastJumpCode = -1
  /\ trace = <<>>
  /\ hasUncatchable = FALSE
  /\ exitCode = -1
  /\ self = 1
  /\ tls = [t \in Threads |-> NoCalls]
  /\ vts = [class \in {vtObject} \cup Linkable |->
              IF class = vtObject THEN ObjectVt ELSE StaticVt(class)]
  /\ result = NoResult
  /\ heap = <<>> /\ proc = NoProc /\ history = <<>>
  /\ sjObjectsCreated = 0 /\ sjObjectsDeleted = 0 /\ calls = <<>>

LinkNext ==
  \/ LinkCall
  \/ LinkTest
  \/ LinkParent
  \/ LinkCopy
  \/ LinkSet
  \/ LinkOverride

SpecLink == LinkInit /\ [][LinkNext]_allVars

\* ----------------------------------------------------------------------
\* Terminating blocks: programs whose try, catch and finally bodies each
\* come to an end, by reaching their closing brace or by throwing.
\* ----------------------------------------------------------------------

\* What these programs throw, throw(newex()) with errno 60 and the
\* uncatchable flag clear or set, and what they rethrow.
TermEntries == [code : {60}, uncatchable : BOOLEAN, message : {""}]

\* throw(entry) in a block or at the top level.
TermThrow ==
  /\ InUserCode
  /\ \E entry \in TermEntries : Throw(entry, contexts, <<>>, FALSE)
  /\ UNCHANGED <<thrVars, objVars>>

\* rethrow(msgex("again")) in a block.
TermRethrow ==
  /\ InUserCode /\ nextContext > 0
  /\ nextTrace <= MaxRethrowTrace
  /\ IF RethrowAllowed
       THEN Throw([DeepRethrown EXCEPT !.code = RethrowCode(@)],
                  contexts, trace, hasUncatchable)
       ELSE /\ exitCode' = EXIT_OUTSIDE_RETHROW
            /\ UNCHANGED <<contexts, sxLastJumpCode, trace, hasUncatchable>>
  /\ UNCHANGED <<thrVars, objVars>>

TermNext ==
  \/ EnterTry
  \/ CatchClause
  \/ NoClause
  \/ BlockEnd
  \/ Finally
  \/ FinallyEnd
  \/ LeaveTry
  \/ TermRethrow
  \/ TermThrow

\* The block of the region at depth d is left: by its closing brace or by
\* a throw.
BlockExit(d) ==
  nextContext = d /\ (BlockEnd \/ FinallyEnd \/ TermThrow \/ TermRethrow)

\* The thread keeps running, and no block runs for ever: whenever control
\* is in the block of a region again and again (regions nested in it come
\* and go), the block is left at last.
SpecTerm ==
  /\ Init /\ [][TermNext]_allVars
  /\ WF_allVars(TermNext)
  /\ \A d \in 1..MaxDepth : SF_allVars(BlockExit(d))

\* ----------------------------------------------------------------------
\* Exit statuses: programs that throw exceptions of many codes and let
\* some of them reach the top level.
\* ----------------------------------------------------------------------

\* The codes these programs throw: below 1, small, and around the values
\* at which EXIT_UNCAUGHT + code reaches the reserved statuses and the cap.
ExitCodes == {-1, 0, 1, 49, 50, 53, 54, 60}

\* errno = code; throw(newex()) in a try body or at the top level.
ExitThrow ==
  /\ Running
  /\ IF nextContext = 0 THEN TRUE ELSE Top.pc = "try"
  /\ \E code \in ExitCodes :
       Throw([code |-> code, uncatchable |-> FALSE, message |-> ""],
             contexts, <<>>, FALSE)
  /\ UNCHANGED <<thrVars, objVars>>

ExitNext ==
  \/ EnterTry
  \/ CatchClause
  \/ NoClause
  \/ BlockEnd
  \/ Finally
  \/ FinallyEnd
  \/ LeaveTry
  \/ ExitThrow

SpecExit == Init /\ [][ExitNext]_allVars

\* ----------------------------------------------------------------------
\* Payloads: the recursion f() of the deep programs, throwing and
\* rethrowing entries made by exex(m, e), e a fresh malloc'ed payload.  The
\* heap holds the payloads.
\* ----------------------------------------------------------------------

\* exex(m, e) with errno: the entry {errno, 0, file, line, m, e}.
exex(errno, m, e) ==
  [code |-> errno, uncatchable |-> FALSE, message |-> m, extra |-> e]

\* The extra field of an entry; the entries made by newex(), msgex() and
\* _sxLeaveTry have NULL there.
ExtraOf(entry) == IF "extra" \in DOMAIN entry THEN entry.extra ELSE NULL

\* free(extra).
free(h, e) == [h EXCEPT ![e].live = FALSE, ![e].frees = @ + 1]

\* clearTrace: while (nextTrace > 0) { extra = trace[--nextTrace].extra;
\* if (extra != NULL) free(extra); } - the heap afterwards.
RECURSIVE clearTrace(_, _)
clearTrace(h, tr) ==
  IF tr = <<>> THEN h
  ELSE LET e == ExtraOf(tr[Len(tr)])
       IN clearTrace(IF e # NULL THEN free(h, e) ELSE h,
                     SubSeq(tr, 1, Len(tr) - 1))

\* The heap, and the payload, after e = malloc(...) or without it; a payload
\* just allocated is live and has never been freed.
Malloc(h, withExtra) ==
  [heap |-> IF withExtra THEN Append(h, [live |-> TRUE, frees |-> 0]) ELSE h,
   e |-> IF withExtra THEN Len(h) + 1 ELSE NULL]

\* f() called from the top level or from the try body of f().
ExtraEnterTry == nextContext < MaxExtraDepth /\ DeepEnterTry

\* throw(exex("timed out", e)) or throw(msgex("timed out")) with errno 60,
\* in a block of f() or at the top level: sxThrow clears the trace, freeing
\* the payloads it holds, then throws.
ExtraThrow ==
  /\ InUserCode
  /\ \E withExtra \in BOOLEAN :
       /\ withExtra => Len(heap) < MaxExtras
       /\ LET m == Malloc(heap, withExtra)
          IN /\ heap' = clearTrace(m.heap, trace)
             /\ Throw(exex(60, "timed out", m.e), contexts, <<>>, FALSE)
  /\ UNCHANGED <<thrVars, vts, result, proc, history, trkVars>>

\* rethrow(exex("again", e)) or rethrow(msgex("again")) with errno 0, in
\* the catchall body of f().
ExtraRethrow ==
  /\ Running /\ nextContext > 0 /\ Top.pc = "catch"
  /\ \E withExtra \in BOOLEAN :
       /\ withExtra => Len(heap) < MaxExtras
       /\ LET m == Malloc(heap, withExtra)
          IN /\ heap' = m.heap
             /\ IF RethrowAllowed
                  THEN Throw([exex(0, "again", m.e)
                                EXCEPT !.code = RethrowCode(@)],
                             contexts, trace, hasUncatchable)
                  ELSE /\ exitCode' = EXIT_OUTSIDE_RETHROW
                       /\ UNCHANGED <<contexts, sxLastJumpCode, trace,
                                      hasUncatchable>>
  /\ UNCHANGED <<thrVars, vts, result, proc, history, trkVars>>

ExtraNext ==
  \/ ExtraEnterTry
  \/ CatchClause
  \/ NoClause
  \/ BlockEnd
  \/ Finally
  \/ FinallyEnd
  \/ LeaveTry
  \/ ExtraRethrow
  \/ ExtraThrow

SpecExtra == Init /\ [][ExtraNext]_allVars

\* ----------------------------------------------------------------------
\* Vocabulary of the properties.
\* ----------------------------------------------------------------------

\* Control is at endtry of the innermost region.
AtEndtry == Running /\ nextContext > 0 /\ Top.pc = "endtry"

\* This step is endtry of the innermost region (_sxLeaveTry).
Left == AtEndtry /\ nextContext' = nextContext - 1

\* ... and it leaves silently: the process goes on, nothing is appended to
\* the trace and the enclosing region stays where it was.
LeftSilently ==
  /\ Left
  /\ exitCode' = -1
  /\ trace' = trace
  /\ (nextContext > 1
        => contexts'[nextContext - 1] = contexts[nextContext - 1])

\* ... and it hands an exception with code c to the enclosing region, whose
\* else-if chain is evaluated next, or ends the process when there is none.
PropagatedCode(c) ==
  /\ Left
  /\ IF nextContext = 1
       THEN exitCode' # -1 /\ nextTrace' > 0 /\ trace'[nextTrace'].code = c
       ELSE /\ exitCode' = -1
            /\ contexts'[nextContext - 1].pc = "clause"
            /\ contexts'[nextContext - 1].pending = c
            /\ sxLastJumpCode' = c

\* ... and it hands some exception on.
PropagatedOut ==
  /\ Left
  /\ IF nextContext = 1 THEN exitCode' # -1
       ELSE exitCode' = -1 /\ contexts'[nextContext - 1].pc = "clause"

\* The finally body of region cx has run as often as its text says: once
\* when the region has finally, never otherwise.
FinallyOnce(cx) == cx.nFinally = IF cx.fin = "yes" THEN 1 ELSE 0

\* This step evaluates a clause of the innermost region's else-if chain.
ClauseStep ==
  /\ Running /\ nextContext > 0 /\ Top.pc = "clause"
  /\ nextContext' = nextContext
  /\ contexts'[nextContext].pc \in {"clause", "catch"}
  /\ (contexts'[nextContext].k # 0
        => contexts'[nextContext].k = Top.k + 1)

\* The clause evaluated by that step.
ClauseRead == contexts'[nextContext].clauses[Top.k]

\* This step enters a catch or catchall body of the innermost region.
EntersCatch ==
  /\ Running /\ nextContext > 0 /\ Top.pc # "catch"
  /\ nextContext' = nextContext
  /\ contexts'[nextContext].pc = "catch"

\* ----------------------------------------------------------------------
\* C1.  A region in which nothing throws (no throw of its body, catch or
\* finally blocks lands in it): finally, if present, has run exactly once
\* when endtry is reached, no catch clause has run, and endtry leaves
\* silently.
\* ----------------------------------------------------------------------
C1_NoThrowLeavesSilently ==
  [][(Left /\ Top.from = "")
       => (Top.claimed = 0 /\ FinallyOnce(Top) /\ LeftSilently)]_vars

\* ----------------------------------------------------------------------
\* C2.  The body throws an ordinary exception with code C >= 1.  While the
\* else-if chain is evaluated for it, a catch(C) clause that is reached
\* takes it and a catch(D), D # C, never does, so the first catch(C) placed
\* before any catchall is the clause that runs; when that catch body and
\* finally complete normally, finally has run exactly once and endtry
\* leaves silently.
\* ----------------------------------------------------------------------
C2_MatchingCatchRuns ==
  [][((ClauseStep /\ Top.from = "try" /\ Top.claimed = 0 /\ ~Top.unc)
        => (/\ sxLastJumpCode = Top.pending
            /\ Top.pending >= 1
            /\ (ClauseRead = Top.pending
                  => (/\ EntersCatch
                      /\ contexts'[nextContext].claimed = Top.pending))
            /\ (ClauseRead \notin {Top.pending, CATCHALL} => ~EntersCatch)))
     /\
     ((Left /\ Top.from = "try" /\ Top.claimed # 0 /\ ~Top.unc)
        => (FinallyOnce(Top) /\ LeftSilently))]_vars

\* A region is at endtry after catch(60) took the code 60 its body threw
\* and the catch body and finally completed.
C2_Witness ==
  /\ AtEndtry
  /\ Top.from = "try" /\ Top.claimed = 60 /\ ~Top.unc
  /\ Top.clauses = <<1, 60>>
  /\ Top.fin = "yes" /\ Top.nFinally = 1

\* ----------------------------------------------------------------------
\* C3.  During one execution of a region at most one catch/catchall body
\* is entered: a body is entered only while no clause of the region has
\* claimed it, by the first clause in source order that matches, also
\* when later clauses would match and after the claiming body has thrown.
\* ----------------------------------------------------------------------
FirstMatchClaimed(cx) ==
  \E i \in 1..Len(cx.clauses) :
    /\ cx.clauses[i] \in {cx.claimed, CATCHALL}
    /\ \A j \in 1..(i - 1) : cx.clauses[j] \notin {cx.claimed, CATCHALL}
    /\ (cx.pc = "catch" => i = Len(cx.clauses))

C3_AtMostOneCatch ==
  /\ [][EntersCatch => Top.claimed = 0]_vars
  /\ [](\A i \in 1..nextContext :
          contexts[i].claimed # 0 => FirstMatchClaimed(contexts[i]))

\* The claiming catch body has thrown and the chain is evaluated again,
\* at a later clause that would match the new exception.
C3_Witness ==
  /\ Running /\ nextContext > 0
  /\ Top.pc = "clause" /\ Top.from = "catch" /\ Top.claimed # 0
  /\ Top.k = 2 /\ Len(Top.clauses) = 2
  /\ Top.clauses[2] \in {sxLastJumpCode, CATCHALL}

\* ----------------------------------------------------------------------
\* C4.  The claiming catch body throws and the region has finally:
\* finally runs exactly once and endtry hands the exception thrown by the
\* catch body to the enclosing region.
\* ----------------------------------------------------------------------
C4_CatchThrowPropagates ==
  [][(Left /\ Top.from = "catch" /\ Top.fin = "yes")
       => (Top.nFinally = 1 /\ PropagatedCode(Top.pending))]_vars

\* ----------------------------------------------------------------------
\* C5.  A throw inside finally never enters a catch clause or the finally
\* body of the same region again, and the exception thrown by finally is
\* the one endtry hands to the enclosing region.
\* ----------------------------------------------------------------------
C5_FinallyThrowPropagates ==
  /\ [](\A i \in 1..nextContext :
          contexts[i].from = "finally"
            => /\ contexts[i].pc \in {"clause", "fin", "endtry"}
               /\ contexts[i].nFinally = 1)
  /\ [][(Left /\ Top.from = "finally")
          => PropagatedCode(Top.pending)]_vars

\* A region whose catch body threw is at endtry after its finally body
\* threw as well.
C5_Witness ==
  /\ AtEndtry
  /\ Top.from = "finally" /\ Top.claimed # 0 /\ Top.caught > FINALLY_THRESHOLD
  /\ Top.pending = 60 /\ Len(Top.clauses) = 2

\* ----------------------------------------------------------------------
\* C6.  The body throws and no catch clause of the region claims the
\* exception: after finally has completed normally (whatever it did,
\* nested regions included) endtry hands the exception to the enclosing
\* region, or ends the process when there is none.
\* ----------------------------------------------------------------------
C6_UnclaimedPropagates ==
  [][(Left /\ Top.from = "try" /\ Top.claimed = 0)
       => PropagatedCode(Top.pending)]_vars

\* ----------------------------------------------------------------------
\* C7.  An uncatchable exception always reaches the top level: a region
\* it has landed in is never left silently, whatever the region's catch
\* and finally blocks did.
\* ----------------------------------------------------------------------
C7_UncatchableReachesTop ==
  [][(Left /\ Top.unc) => PropagatedOut]_vars

\* ----------------------------------------------------------------------
\* C8.  sxRethrow is accepted only while the innermost frame has been
\* claimed by a catch clause (caught = 1); called anywhere else it ends
\* the process with EXIT_OUTSIDE_RETHROW and transfers control nowhere.
\* ----------------------------------------------------------------------
InClaimedCatch ==
  IF nextContext > 0 THEN Top.caught = 1 /\ Top.pc = "catch" ELSE FALSE

C8_RethrowOnlyInCatch ==
  [][(sxRethrow /\ ~InClaimedCatch)
       => (exitCode' = EXIT_OUTSIDE_RETHROW /\ contexts' = contexts)]_vars

\* ----------------------------------------------------------------------
\* C9.  sxRethrow inside a claiming catch with an entry whose code is
\* below 1: the exception it throws, which the region then owes to its
\* enclosing region, carries the code the catch clause claimed.
\* ----------------------------------------------------------------------
C9_RethrowKeepsCode ==
  [][(InClaimedCatch /\ \E entry \in UserEntries :
                           entry.code < 1 /\ sxRethrowEntry(entry))
       => /\ contexts'[nextContext].pending = Top.claimed
          /\ sxLastJumpCode' = Top.claimed]_vars

\* ----------------------------------------------------------------------
\* C10.  An exception that reaches the top level unhandled, thrown with no
\* enclosing region or handed on by the outermost endtry, ends the process
\* with status 200 + code, a code below 1 counting as 1, capped at 254.
\* ----------------------------------------------------------------------
UncaughtStatus(code) ==
  LET c == IF code < 1 THEN 1 ELSE code
  IN IF 200 + c > 254 THEN 254 ELSE 200 + c

C10_UncaughtExitStatus ==
  [][(Running /\ exitCode' # -1 /\ (sxThrow \/ LeaveTry))
       => /\ nextTrace' > 0
          /\ exitCode' = UncaughtStatus(trace'[nextTrace'].code)
          /\ exitCode' \in 201..254]_vars

\* ----------------------------------------------------------------------
\* C11.  A catch clause has taken the exception of the body, its body and
\* finally completed and endtry of the outermost region left silently:
\* at top level, outside any catch or finally, curex() has code -1 and
\* sxWalkTrace visits no entry.
\* ----------------------------------------------------------------------
C11_TraceEmptyAfterHandled ==
  [][(LeftSilently /\ nextContext = 1
        /\ Top.from = "try" /\ Top.claimed # 0)
       => /\ sxCurrentException(trace') = -1
          /\ sxWalkTrace(trace') = <<>>]_vars

\* ----------------------------------------------------------------------
\* C12.  The trace never holds more than MAX_TRACE entries.  A fresh throw
\* leaves exactly its own entry, at index 0; every other step keeps the
\* entries it found, in their order, and a rethrow or an endtry
\* propagation appends one entry at the end, or changes nothing when the
\* trace is full.  So entry 0 stays the entry of the latest fresh throw.
\* ----------------------------------------------------------------------
\* This step is an endtry that hands an exception on.
LeavePropagates ==
  LeaveTry /\ LeaveRethrows(hasUncatchable, sxLastJumpCode)

C13_FrameCountBounded ==
  /\ [](nextContext \in 0..MAX_TRY_CATCH)
  /\ [][(DeepEnterTry /\ nextContext >= MAX_TRY_CATCH)
          => /\ exitCode' = EXIT_MAX_TRIES
             /\ UNCHANGED <<contexts, sxLastJumpCode, trace,
                            hasUncatchable>>]_vars

\* The process was ended by the 101st try.
C13_Witness ==
  /\ exitCode = EXIT_MAX_TRIES
  /\ nextContext = MAX_TRY_CATCH
  /\ trace = <<>>

\* ----------------------------------------------------------------------
\* C14.  Frames are strictly nested.  Only try adds a frame, on top of
\* the frames present, and only endtry removes one, the innermost; no
\* step touches a frame below the innermost one it finds or leaves, so a
\* region is left with the frames that were there when it was entered.
\* A throw or rethrow inside a region lands at the first clause of the
\* innermost frame, and so does the exception an endtry hands on.
\* ----------------------------------------------------------------------
MinOf(a, b) == IF a < b THEN a ELSE b

\* This step transfers control to the first clause of frame i.
LandsIn(i) ==
  /\ exitCode' = -1
  /\ contexts'[i].pc = "clause" /\ contexts'[i].k = 1

C14_FramesStrictlyNested ==
  /\ [][/\ nextContext' \in {nextContext - 1, nextContext, nextContext + 1}
        /\ \A i \in 1..(MinOf(nextContext, nextContext') - 1) :
             contexts'[i] = contexts[i]
        /\ (nextContext' = nextContext + 1
              => (DeepEnterTry /\ SubSeq(contexts', 1, nextContext) = contexts))
        /\ (nextContext' = nextContext - 1 => Left)]_vars
  /\ [][((DeepThrow \/ DeepRethrow) /\ nextContext > 0)
          => (nextContext' = nextContext /\ LandsIn(nextContext))]_vars
  /\ [][(Left /\ nextContext > 1)
          => \/ contexts'[nextContext - 1] = contexts[nextContext - 1]
             \/ LandsIn(nextContext - 1)]_vars

\* The endtry of a fourth-level region has handed an exception to the
\* third-level region around it.
C14_Witness ==
  /\ Running /\ nextContext = 3
  /\ Top.pc = "clause" /\ Top.from = "try"
  /\ nextTrace = 3 /\ trace[3].message = "rethrown by ENDTRY"

InChain(h, own, D) ==
  \E n \in 1..MaxVts : \E p \in [1..n -> 1..MaxVts] :
    /\ p[1] = own
    /\ p[n] = D
    /\ \A i \in 1..(n - 1) : p[i + 1] = h[p[i]].parent

\* C16.  sjHasClass(obj, D) returns (the walk ends, for every object of
\* every hierarchy) and its value is non-zero exactly when D is the
\* descriptor of the object's class or one of its ancestors at any
\* distance; it is zero for every descriptor outside that chain.
C16_HasClassIffInChain ==
  result.op = "sjHasClass"
    => /\ result.returned
       /\ (result.ret # 0) <=> InChain(vts, result.args[1], result.args[2])

\* sjHasClass answered yes for the root, the parent of the parent of the
\* object's class.
C16_Witness ==
  /\ result.op = "sjHasClass"
  /\ result.ret # 0
  /\ result.args = <<3, 1>>
  /\ vts[3].parent = 2
  /\ vts[2].parent = 1

\* The message of a failed cast of an object of class own to D: it names
\* the object's class and the target class.
CastMessage(h, own, D) ==
  <<"Object of class %s cannot be cast to %s.",
    h[own].className, h[D].className>>

\* sjClassCast was called and did not return.
CastFailed == result.op = "sjClassCast" /\ ~result.returned

\* C17.  sjClassCast(obj, D) returns obj, throwing nothing, when D is in
\* the chain of the object's class.  Otherwise it does not return: it
\* throws one exception that is not uncatchable and whose message names
\* the object's class and D; at the top level the exception ends the
\* process as uncaught, in a try it leaves the body, catchall takes it and
\* endtry then leaves the region silently.
C17_CastReturnsOrThrows ==
  /\ [](result.op = "sjClassCast" =>
          IF InChain(vts, result.args[1], result.args[2])
            THEN /\ result.returned
                 /\ result.vt = result.args[1]
                 /\ trace = <<>>
            ELSE /\ ~result.returned
                 /\ Len(trace) = 1
                 /\ trace[1].message =
                      CastMessage(vts, result.args[1], result.args[2])
                 /\ ~trace[1].uncatchable
                 /\ ~hasUncatchable
                 /\ nextContext = 1
                      => Top.from = "try" /\ Top.pc # "try")
  /\ [][result = NoResult /\ nextContext = 0 /\ CastFailed'
          => exitCode' = UncaughtExit(0)]_allVars
  /\ [][(CastFailed /\ nextContext = 1)
          => /\ Top.pc = "clause" => contexts'[1].pc = "catch"
             /\ Left => LeftSilently]_allVars

\* With Wallnut (2) and Orange (3) both subclasses of the root, the cast
\* of a Wallnut to Orange in a try has thrown and control is in the
\* catchall body, the message naming the two classes.
C17_Witness ==
  /\ CastFailed
  /\ result.args = <<2, 3>>
  /\ vts[2].parent = 1 /\ vts[3].parent = 1
  /\ nextContext = 1 /\ Top.pc = "catch"
  /\ trace[1].message = CastMessage(vts, 2, 3)

\* The descriptors from vt up to the root, in the order of the parent
\* pointers.
ChainOf(h, vt) ==
  CHOOSE p \in UNION {[1..n -> 1..MaxVts] : n \in 1..MaxVts} :
    /\ p[1] = vt
    /\ \A i \in 1..(Len(p) - 1) : p[i + 1] = h[p[i]].parent
    /\ h[p[Len(p)]].parent = NULL

\* ... of which those whose layout has a method pointer at the offset.
Holding(h, vt, vtOffset) ==
  SelectSeq(ChainOf(h, vt), LAMBDA c : h[c].size - ptrSize >= vtOffset)

\* The places i of the chain p whose method pointer is the first to hold
\* body (none or one).
FirstWith(h, p, vtOffset, body) ==
  {i \in 1..Len(p) : /\ Deref(h, p[i], vtOffset) = body
                     /\ \A k \in 1..(i - 1) : Deref(h, p[k], vtOffset) # body}

\* The places j after i whose method pointer is the first to differ from
\* body (none or one).
FirstDiffering(h, p, vtOffset, body, i) ==
  {j \in (i + 1)..Len(p) :
     /\ Deref(h, p[j], vtOffset) # body
     /\ \A k \in (i + 1)..(j - 1) : Deref(h, p[k], vtOffset) = body}

\* sjInheritedMethod was called with a method pointer of vt and a body.
InheritedCalled ==
  /\ result.op = "sjInheritedMethod"
  /\ result.args[2] >= HeaderWords
  /\ result.args[2] <= vts[result.args[1]].size - ptrSize
  /\ result.args[3] # NULL

\* C18.  sjInheritedMethod(vt, slot, body) skips the descriptors before the
\* first one whose slot holds body and, after it, the ancestors whose slot
\* still holds body; when the first ancestor whose slot differs from body
\* holds a body (is not NULL), that ancestor is returned with the address of
\* its slot, and nothing else is ever returned with a slot address.  What
\* the returned address holds is never body.
C18_NextOverriddenReturned ==
  InheritedCalled =>
    LET vt == result.args[1]
        vtOffset == result.args[2]
        body == result.args[3]
        p == Holding(vts, vt, vtOffset)
    IN /\ \A i \in FirstWith(vts, p, vtOffset, body) :
            \A j \in FirstDiffering(vts, p, vtOffset, body, i) :
              Deref(vts, p[j], vtOffset) # NULL
                => /\ result.returned
                   /\ result.vt = p[j]
                   /\ result.method = SlotAddress(p[j], vtOffset)
       /\ result.method # NullSlot
            => /\ \E i \in FirstWith(vts, p, vtOffset, body) :
                    \E j \in FirstDiffering(vts, p, vtOffset, body, i) :
                      result.vt = p[j]
               /\ result.method.vt = result.vt
               /\ Deref(vts, result.method.vt, result.method.offset)
                    \notin {body, NULL}

\* Called from the body 1 of class 3, whose parent 2 inherits the same
\* body and whose grandparent 1 has the body 2: the grandparent's slot was
\* returned.
C18_Witness ==
  /\ InheritedCalled
  /\ result.args = <<3, HeaderWords, 1>>
  /\ vts[3].parent = 2 /\ vts[2].parent = 1
  /\ vts[3].slots = <<1>> /\ vts[2].slots = <<1>> /\ vts[1].slots = <<2>>
  /\ result.returned
  /\ result.vt = 1
  /\ result.method = SlotAddress(1, HeaderWords)

\* sjInheritedMethod was called and did not return.
InheritedFailed == result.op = "sjInheritedMethod" /\ ~result.returned

\* The slot address of the call lies outside the layout of vt: before vt,
\* or beyond vt->size minus one pointer.
OutsideLayout(h, vt, vtOffset) ==
  vtOffset < 0 \/ vtOffset > h[vt].size - ptrSize

\* No descriptor of the chain of vt holds body at the offset.
BodyNowhere(h, vt, vtOffset, body) ==
  LET p == Holding(h, vt, vtOffset)
  IN \A i \in 1..Len(p) : Deref(h, p[i], vtOffset) # body

\* C19.  sjInheritedMethod does not return, and throws one exception that
\* is not uncatchable and whose message names sjInheritedMethod and the
\* class, exactly when the slot address lies outside the layout of vt, or
\* body is NULL, or no descriptor of the chain holds body in that slot.
\* Thrown at the top level the exception ends the process as uncaught;
\* thrown in a try it is taken by catchall and endtry leaves silently.
C19_InheritedFails ==
  /\ [](result.op = "sjInheritedMethod" =>
          LET vt == result.args[1]
              vtOffset == result.args[2]
              body == result.args[3]
              fails == IF OutsideLayout(vts, vt, vtOffset) \/ body = NULL
                         THEN TRUE
                         ELSE BodyNowhere(vts, vt, vtOffset, body)
          IN IF fails
               THEN /\ ~result.returned
                    /\ result.vt = NULL /\ result.method = NullSlot
                    /\ Len(trace) = 1
                    /\ trace[1].message \in
                         {<<"sjInheritedMethod(%s): vtMethod doesn't belong to vt.",
                            vts[vt].className>>,
                          <<"sjInheritedMethod(%s): methodBody doesn't belong to any vt in the chain.",
                            vts[vt].className>>}
                    /\ ~trace[1].uncatchable
                    /\ ~hasUncatchable
                    /\ nextContext = 1
                         => Top.from = "try" /\ Top.pc # "try"
               ELSE result.returned /\ trace = <<>>)
  /\ [][result = NoResult /\ nextContext = 0 /\ InheritedFailed'
          => exitCode' = UncaughtExit(0)]_allVars
  /\ [][(InheritedFailed /\ nextContext = 1)
          => /\ Top.pc = "clause" => contexts'[1].pc = "catch"
             /\ Left => LeftSilently]_allVars

\* Called in a try with the body 2 that no descriptor of the chain of
\* class 3 holds: the exception was thrown and catchall has taken it.
C19_Witness ==
  /\ InheritedFailed
  /\ result.args = <<3, HeaderWords, 2>>
  /\ vts[3].slots = <<1>>
  /\ BodyNowhere(vts, 3, HeaderWords, 2)
  /\ nextContext = 1 /\ Top.pc = "catch"
  /\ Len(trace) = 1

\* Root (1) -> Mid (2) -> Leaf (3) with the method abstract in Root and
\* Mid and implemented by Leaf alone, and sjInheritedMethod called from
\* Leaf's implementation.
AbstractAbove ==
  /\ InheritedCalled
  /\ vts[3].parent = 2 /\ vts[2].parent = 1
  /\ vts[1].slots = <<NULL>> /\ vts[2].slots = <<NULL>>
  /\ vts[3].slots = <<result.args[3]>>
  /\ result.args[1] = 3

\* C20 as stated.  With the method abstract in Root and Mid and implemented
\* by Leaf alone, sjInheritedMethod called from Leaf's implementation
\* returns what it returns when no ancestor has the slot: no descriptor
\* (NULL) and no slot pointer (NULL).
C20_AbstractAsNoAncestor ==
  AbstractAbove
    => result.returned /\ result.vt = NULL /\ result.method = NullSlot

\* C20, amended.  Once body was found, when the first ancestor whose slot
\* differs from body has NULL there (the method is abstract in it), the
\* slot pointer returned is NULL, as it is when no ancestor has a
\* differing slot, but the descriptor returned is that ancestor's; the
\* descriptor is NULL only when the chain ends without a differing slot.
\* For Root -> Mid -> Leaf with the method abstract in Root and Mid the
\* result is {Mid, NULL}.
C20_AbstractAncestorReported ==
  /\ InheritedCalled =>
       LET vt == result.args[1]
           vtOffset == result.args[2]
           body == result.args[3]
           p == Holding(vts, vt, vtOffset)
       IN \A i \in FirstWith(vts, p, vtOffset, body) :
            /\ \A j \in FirstDiffering(vts, p, vtOffset, body, i) :
                 Deref(vts, p[j], vtOffset) = NULL
                   => /\ result.returned
                      /\ result.vt = p[j]
                      /\ result.method = NullSlot
            /\ FirstDiffering(vts, p, vtOffset, body, i) = {}
                 => /\ result.returned
                    /\ result.vt = NULL
                    /\ result.method = NullSlot
  /\ AbstractAbove
       => result.returned /\ result.vt = 2 /\ result.method = NullSlot

\* The call from Leaf's implementation has returned Mid's descriptor and
\* no slot pointer.
C20_Witness ==
  /\ AbstractAbove
  /\ result.returned
  /\ result.vt = 2
  /\ result.method = NullSlot

\* Root (1) -> Mid (2) -> Leaf (3), and sjBaseMethod was called with
\* Leaf's descriptor and the slot of the method.
BaseCalledOnLeaf ==
  /\ result.op = "sjBaseMethod"
  /\ result.args[1] = 3
  /\ vts[3].parent = 2 /\ vts[2].parent = 1

\* C21.  With the method abstract in Root and overridden neither by Mid nor
\* by Leaf (the slot is NULL in the three descriptors), sjBaseMethod(Leaf,
\* slot) does not throw and returns Root's descriptor with a NULL method.
C21_BaseOfAbstractNotOverridden ==
  (/\ BaseCalledOnLeaf
   /\ vts[1].slots = <<NULL>> /\ vts[2].slots = <<NULL>>
   /\ vts[3].slots = <<NULL>>)
    => result.returned /\ result.vt = 1 /\ result.ret = NULL

\* C22.  With the method abstract in Root and in Mid and overridden by
\* Leaf, sjBaseMethod(Leaf, slot) returns Root's descriptor, where the
\* method was first declared, with a NULL method.
C22_BaseOfAbstractOverriddenInLeaf ==
  (/\ BaseCalledOnLeaf
   /\ vts[1].slots = <<NULL>> /\ vts[2].slots = <<NULL>>
   /\ vts[3].slots[1] \in MethodBodies)
    => result.returned /\ result.vt = 1 /\ result.ret = NULL

\* The class that introduced the method of the call: the last descriptor
\* of the chain of vt whose layout has the slot.
Introducer(h, vt, vtOffset) ==
  LET p == Holding(h, vt, vtOffset) IN p[Len(p)]

\* Every class from vt up to the introducer has a body in the slot.
ConcreteThroughout(h, vt, vtOffset) ==
  LET p == Holding(h, vt, vtOffset)
  IN \A i \in 1..Len(p) : Deref(h, p[i], vtOffset) \in MethodBodies

\* C23.  For a method introduced with a body in class A and concrete in
\* every class below it, sjBaseMethod called with the descriptor of A or of
\* a descendant of A does not throw and returns A's descriptor with a
\* non-NULL method, whether the classes in between inherit the body or
\* override it.
C23_BaseOfConcrete ==
  (/\ result.op = "sjBaseMethod"
   /\ ConcreteThroughout(vts, result.args[1], result.args[2]))
    => /\ result.returned
       /\ result.vt = Introducer(vts, result.args[1], result.args[2])
       /\ result.ret # NULL

\* The constructor called by sjNew threw.
CtorThrew == proc.fn = "sjNew" /\ proc.pc \in {"ctorThrew", "rethrown"}

\* This step is endtry of the region of sjNew or sjDel, and the exception
\* goes on to the caller: it ends the process when the call was made at
\* the top level, else it lands in the caller's try.
Propagates ==
  /\ InLibrary /\ Left
  /\ IF proc.depth = 0
       THEN exitCode' # -1
       ELSE /\ exitCode' = -1
            /\ contexts'[proc.depth].pc = "clause"
            /\ contexts'[proc.depth].from = "try"

\* An exception that came out of sjNew or sjDel is in the caller's try:
\* catchall takes it and, unless it is uncatchable, endtry then leaves
\* silently.
CallerCatches ==
  (~InLibrary /\ nextContext = 1)
    => /\ Top.pc = "clause" => contexts'[1].pc = "catch"
       /\ (Left /\ ~hasUncatchable) => LeftSilently

\* C24.  When the constructor called by sjNew throws, the buffer that sjNew
\* allocated is freed once (and never twice), no destructor is called,
\* sjNew returns nothing and the exception goes on to the caller of sjNew,
\* whose catchall takes it.
C24_CtorThrowsBufferFreed ==
  /\ [](CtorThrew =>
          /\ result = NoResult
          /\ heap[allocated].dels = 0 /\ heap[existing].dels = 0
          /\ heap[allocated].frees <= 1
          /\ heap[allocated].frees = 1 <=> proc.pc = "rethrown"
          /\ heap[allocated].frees = 1 => ~heap[allocated].live
          /\ proc.pc = "rethrown" => Running \/ proc.depth = 0 \/ hasUncatchable)
  /\ [][(CtorThrew /\ InLibrary /\ Left) => Propagates]_allVars
  /\ [][(CtorThrew /\ proc.pc = "rethrown") => CallerCatches]_allVars

\* newobj(Fruit) in a try: Fruit_new threw, the buffer was freed once and
\* the caller's catchall has taken the exception.
C24_Witness ==
  /\ CtorThrew
  /\ proc.class = vtFruit
  /\ nextContext = 1 /\ proc.depth = 1 /\ Top.pc = "catch"
  /\ heap[allocated].frees = 1 /\ ~heap[allocated].live

\* The constructor called by sjNew returned the existing object, whose
\* class extends Autoref, in place of the buffer.
Substituted ==
  /\ proc.fn = "sjNew"
  /\ proc.o = existing
  /\ sjHasClass(LifeVts, [vt |-> heap[existing].vt], vtAutoref) # 0

\* C25.  When the constructor returns another object that extends Autoref,
\* sjNew frees the buffer it allocated exactly once and returns that
\* object; during the call no destructor runs, the object is not freed and
\* its reference count does not change.
C25_SubstitutedReturned ==
  /\ [](Substituted =>
          /\ heap[existing].dels = 0 /\ heap[allocated].dels = 0
          /\ heap[existing].live /\ heap[existing].frees = 0
          /\ heap[existing].stale = 0
          /\ proc.pc \notin {"threw", "ctorThrew", "rethrown"}
          /\ proc.pc = "returned"
               => /\ result.op = "sjNew" /\ result.returned
                  /\ result.ret = existing
                  /\ heap[allocated].frees = 1 /\ ~heap[allocated].live)
  /\ [][proc'.fn = "sjNew" => heap'[existing] = heap[existing]]_allVars

\* newobjx(YesNo, 1) a second time: YesNo_new returned the existing YesNo,
\* which had been taken once, and sjNew has returned it.
C25_Witness ==
  /\ Substituted
  /\ proc.pc = "returned"
  /\ proc.class = vtYesNo /\ heap[existing].vt = vtYesNo
  /\ heap[existing].refs = 1
  /\ result.ret = existing
  /\ heap[allocated].frees = 1

\* The constructor called by sjNew returned NULL, or an object that does
\* not extend Autoref, and sjNew has thrown.
UnexpectedObject ==
  /\ proc.fn = "sjNew" /\ proc.pc = "threw"
  /\ proc.obj = allocated

\* C26 as stated.  When the constructor returns NULL or another object that
\* does not extend Autoref, sjNew throws and the buffer it allocated is not
\* passed to sjFree: it is leaked.
C26_UnexpectedLeaksBuffer ==
  UnexpectedObject
    => heap[allocated].frees = 0 /\ heap[allocated].live

\* C26, amended.  When the constructor returns NULL or another object that
\* does not extend Autoref, sjNew frees the buffer it allocated exactly
\* once and then throws an exception that is not uncatchable and that the
\* caller's catchall takes; what is left alone (neither freed nor
\* destroyed) is the object the constructor returned.
C26_UnexpectedFreesBuffer ==
  /\ [](UnexpectedObject =>
          /\ proc.o # allocated
          /\ proc.o = existing
               => sjHasClass(LifeVts, [vt |-> heap[existing].vt], vtAutoref) = 0
          /\ heap[allocated].frees = 1 /\ ~heap[allocated].live
          /\ heap[allocated].dels = 0
          /\ heap[existing].frees = 0 /\ heap[existing].live
          /\ heap[existing].dels = 0
          /\ result.op = "sjNew" /\ ~result.returned
          /\ ~hasUncatchable
          /\ Len(trace) >= 1 /\ ~trace[1].uncatchable
          /\ proc.depth = 0 => exitCode = UncaughtExit(0))
  /\ [][UnexpectedObject => CallerCatches]_allVars
  /\ [][(proc.fn = "sjNew" /\ proc.pc = "ctorDone"
         /\ (IF proc.o = existing
               THEN sjHasClass(LifeVts, [vt |-> heap[existing].vt],
                               vtAutoref) = 0
               ELSE proc.o = NULL)
         /\ PendingReturn)
          => UnexpectedObject']_allVars

\* Fruit_new returned the existing Fruit in a try: sjNew freed its buffer
\* and threw, and the caller's catchall has taken the exception.
C26_Witness ==
  /\ UnexpectedObject
  /\ proc.o = existing /\ heap[existing].vt = vtFruit
  /\ heap[allocated].frees = 1
  /\ heap[existing].live
  /\ nextContext = 1 /\ Top.pc = "catch"

\* How many calls of op the caller has made on the existing object.
Count(op) == Len(SelectSeq(history, LAMBDA c : c.op = op))

\* The count of the existing object when sjDel was called: the caller's
\* takes less its releases.
CountBefore == Count("take") - Count("release")

\* The class of the existing object extends Autoref.
IsAutoref ==
  sjHasClass(LifeVts, [vt |-> heap[existing].vt], vtAutoref) # 0

\* sjDel destroys the object: it is the last owner's call, or the object
\* is no Autoref.
Destroys == IsAutoref => CountBefore = 1

\* C27.  sjDel on an Autoref decrements the count once; it runs the
\* destructor and frees the memory only when the count before was 1, and
\* else returns 0 with the object alive and, the count apart, as it was.
\* On any other object it always goes on to destroy it and leaves the
\* count alone.  When sjDel returns, it returns non-zero exactly when the
\* object was destroyed.
C27_DelWhenLastOwner ==
  (proc.fn = "sjDel" /\ proc.pc # "release") =>
    /\ heap[existing].refs = IF IsAutoref THEN CountBefore - 1 ELSE 0
    /\ heap[existing].stale = 0
    /\ IF Destroys
         THEN /\ proc.pc \in {"del", "delDone", "delThrew", "returned"}
              /\ heap[existing].dels <= 1 /\ heap[existing].frees <= 1
              /\ heap[existing].frees = 1 => heap[existing].dels = 1
              /\ proc.pc = "returned"
                   => /\ result.op = "sjDel" /\ result.returned
                      /\ result.ret # 0
                      /\ heap[existing].dels = 1
                      /\ heap[existing].frees = 1 /\ ~heap[existing].live
         ELSE /\ proc.pc = "returned"
              /\ result.op = "sjDel" /\ result.returned /\ result.ret = 0
              /\ heap[existing].live
              /\ heap[existing].dels = 0 /\ heap[existing].frees = 0
              /\ heap[existing].vt \in {vtAutoref, vtYesNo}

\* delobj on a YesNo that was taken once: the destructor ran, the memory
\* was freed and sjDel returned 1.
C27_Witness ==
  /\ proc.fn = "sjDel" /\ proc.pc = "returned"
  /\ heap[existing].vt = vtYesNo
  /\ history = <<[op |-> "take", ret |-> 0]>>
  /\ result.ret = 1
  /\ heap[existing].dels = 1 /\ heap[existing].frees = 1
  /\ heap[existing].refs = 0

\* The destructor called by sjDel threw.
DtorThrew == proc.fn = "sjDel" /\ proc.pc = "delThrew"

\* C28.  When sjDel goes on to destroy the object, its memory is released
\* exactly once and only after the destructor was called, also when the
\* destructor throws partway: then the memory is released before endtry of
\* sjDel throws the exception on to the caller, where catchall takes it.
C28_MemoryReleasedOnce ==
  /\ [](proc.fn = "sjDel" =>
          /\ heap[existing].frees <= 1
          /\ heap[existing].frees = 1 => heap[existing].dels = 1
          /\ (proc.pc \in {"delDone", "delThrew"} /\ ~InLibrary)
               => heap[existing].frees = 1 /\ ~heap[existing].live
          /\ DtorThrew => result = NoResult)
  /\ [][(DtorThrew /\ InLibrary /\ Left)
          => heap[existing].frees = 1 /\ Propagates]_allVars
  /\ [][DtorThrew => CallerCatches]_allVars

\* delobj in a try on an object whose destructor threw: the memory was
\* released once and the caller's catchall has taken the exception.
C28_Witness ==
  /\ DtorThrew
  /\ nextContext = 1 /\ proc.depth = 1 /\ Top.pc = "catch"
  /\ heap[existing].dels = 1
  /\ heap[existing].frees = 1 /\ ~heap[existing].live

\* The count after the first i calls of the history, from 0.
CountAfter(i) ==
  Len(SelectSeq(SubSeq(history, 1, i), LAMBDA c : c.op = "take"))
    - Len(SelectSeq(SubSeq(history, 1, i), LAMBDA c : c.op = "release"))

\* The history is N take calls followed by N release calls.
TakesThenReleases(N) ==
  /\ Len(history) = 2 * N
  /\ \A i \in 1..N : history[i].op = "take"
  /\ \A i \in (N + 1)..(2 * N) : history[i].op = "release"

\* C29.  An Autoref that sjNew has just constructed has the count 0.  take
\* and release each return the count as it was before the call.  After N
\* take calls followed by N release calls, N >= 1, the last release has
\* returned 1, every earlier release has returned more than 1, and the
\* count is 0 again.
C29_TakeReleaseCounts ==
  /\ (result.op = "sjNew" /\ result.returned /\ result.ret = allocated
      /\ proc.class = vtAutoref)
       => heap[allocated].refs = 0
  /\ \A i \in 1..Len(history) : history[i].ret = CountAfter(i - 1)
  /\ proc = NoProc => heap[existing].refs = CountAfter(Len(history))
  /\ \A N \in 1..MaxTakes :
       TakesThenReleases(N)
         => /\ history[2 * N].ret = 1
            /\ \A i \in (N + 1)..(2 * N - 1) : history[i].ret > 1
            /\ proc = NoProc => heap[existing].refs = 0

\* Two takes and then two releases on an Autoref: the releases returned 2
\* and 1 and the count is 0.
C29_Witness ==
  /\ TakesThenReleases(2)
  /\ history[3].ret = 2 /\ history[4].ret = 1
  /\ proc = NoProc
  /\ heap[existing].refs = 0

\* The call of thread t and its result.
CallOf(t) ==
  IF t = self THEN [proc |-> proc, result |-> result]
              ELSE [proc |-> tls[t].proc, result |-> tls[t].result]

\* Thread t has made its release.
Released(t) ==
  CallOf(t).proc.fn \in {"sjDel", "release"} /\ CallOf(t).proc.pc # "release"

\* Thread t has seen the count 1 before its decrement: its release
\* returned 1, or its sjDel went on to destroy the object.
SawLast(t) ==
  \/ CallOf(t).proc.fn = "release" /\ CallOf(t).result.ret = 1
  \/ CallOf(t).proc.fn = "sjDel"
       /\ CallOf(t).proc.pc \in {"del", "delDone", "delThrew"}
  \/ CallOf(t).proc.fn = "sjDel" /\ CallOf(t).proc.pc = "returned"
       /\ CallOf(t).result.ret = 1

\* C30.  With the count 2 and two threads that each call sjDel or release
\* once, in every interleaving no two calls see the count 1, and once both
\* have made their release exactly one has; the destructor runs at most
\* once, and only in the thread that saw 1, the memory is freed at most
\* once, and no thread reads the object after it was freed.  A sjDel
\* that saw 1 and has returned ran the destructor once and freed the
\* memory once.
C30_OneLastOwner ==
  /\ Cardinality({t \in Threads : SawLast(t)}) <= 1
  /\ (\A t \in Threads : Released(t))
       => /\ Cardinality({t \in Threads : SawLast(t)}) = 1
          /\ heap[existing].refs = 0
  /\ heap[existing].dels <= 1 /\ heap[existing].frees <= 1
  /\ heap[existing].stale = 0
  /\ heap[existing].dels = 1
       => \E t \in Threads : SawLast(t) /\ CallOf(t).proc.fn = "sjDel"
  /\ heap[existing].frees = 1 => heap[existing].dels = 1
  /\ \A t \in Threads :
       (SawLast(t) /\ CallOf(t).proc.fn = "sjDel"
        /\ CallOf(t).proc.pc = "returned")
         => heap[existing].dels = 1 /\ heap[existing].frees = 1

\* Both threads have called sjDel: thread 2 was told 0, and thread 1 has
\* destroyed the object and returned 1.
C30_Witness ==
  /\ self = 1
  /\ proc.fn = "sjDel" /\ proc.pc = "returned" /\ result.ret = 1
  /\ tls[2].proc.fn = "sjDel" /\ tls[2].proc.pc = "returned"
  /\ tls[2].result.ret = 0
  /\ heap[existing].dels = 1 /\ heap[existing].frees = 1
  /\ heap[existing].refs = 0

\* What one thread alone makes of the descriptor of a class: its
\* parent's descriptor linked first, the parent's words copied, then the
\* four assignments and the block.
RECURSIVE ApplyAll(_, _)
ApplyAll(words, as) ==
  IF as = <<>> THEN words
  ELSE ApplyAll([words EXCEPT ![as[1].word] = as[1].value], Tail(as))

RECURSIVE LinkedAlone(_)
LinkedAlone(class) ==
  IF class = vtObject THEN ObjectVt
  ELSE LET p == LinkedAlone(ParentOf(class))
           copied == [w \in 1..(SizeofVt(class) - 1) |->
                        IF w <= Len(p.words) THEN p.words[w] ELSE NULL]
       IN [parent |-> ParentOf(class),
           words |-> ApplyAll(ApplyAll(copied, LinkSets(class)),
                              LinkBody(class))]

\* Every thread has made its call and every call has returned.
AllReturned == \A t \in Threads : tls[t].stack = <<>> /\ tls[t].got # NULL

\* C31.  Once all first-time calls of the accessors have returned, every
\* descriptor that was linked has exactly the parent and the words that
\* one thread alone gives it.
C31_LinkingConverges ==
  AllReturned =>
    \A class \in Linkable :
      Linked(vts[class].parent) => vts[class] = LinkedAlone(class)

\* C34.  A thread that has obtained a descriptor from its accessor sees
\* it fully initialised, from the moment the call returns on.
C34_ObtainedIsLinked ==
  \A t \in Threads :
    tls[t].got # NULL => vts[tls[t].got] = LinkedAlone(tls[t].got)

\* sjCountParents(vt): the parent pointers followed until one is NULL.
RECURSIVE sjCountParents(_, _)
sjCountParents(h, vt) ==
  IF h[vt].parent = NULL THEN 0 ELSE 1 + sjCountParents(h, h[vt].parent)

\* C32 as stated.  No descriptor that a program can hold has a null
\* parent: the root's parent is the root, and a descriptor obtained from
\* its accessor has its direct ancestor as parent.
C32_ParentNeverNull ==
  /\ vts[vtObject].parent = vtObject
  /\ \A t \in Threads :
       tls[t].got # NULL => vts[tls[t].got].parent # NULL

\* C32, amended.  The root's parent is NULL, at all times.  The parent of
\* a linked class is NULL until the first call of its accessor sets it,
\* and then its direct ancestor (Object for Fruit, Fruit for Orange); a
\* descriptor obtained from its accessor has its parent set, and the walk
\* along the parents from it ends at the root.
C32_ParentSetExceptRoot ==
  /\ vts[vtObject].parent = NULL
  /\ vts[vtFruit].parent \in {NULL, vtObject}
  /\ vts[vtOrange].parent \in {NULL, vtFruit}
  /\ \A t \in Threads :
       tls[t].got # NULL =>
         /\ vts[tls[t].got].parent # NULL
         /\ sjCountParents(vts, tls[t].got)
              = IF tls[t].got = vtOrange THEN 2 ELSE 1

\* One thread has obtained Orange's descriptor and the other Fruit's.
C32_Witness ==
  /\ tls[1].got = vtOrange /\ tls[2].got = vtFruit
  /\ vts[vtOrange].parent = vtFruit /\ vts[vtFruit].parent = vtObject

\* sjNew has ended without handing out the buffer it allocated: the
\* allocation failed, the constructor threw, or it returned NULL or
\* another object.
NewWithoutBuffer ==
  /\ proc.fn = "sjNew"
  /\ \/ proc.pc \in {"threw", "ctorThrew", "rethrown"}
     \/ proc.pc \in {"ctorDone", "returned"} /\ proc.o # allocated

\* sjDel has gone on to destroy its object.
DelDestroys ==
  /\ proc.fn = "sjDel"
  /\ \/ proc.pc \in {"delDone", "delThrew"}
     \/ proc.pc = "returned" /\ result.ret = 1

\* C33.  Neither counter ever decreases.  sjObjectsCreated is one more
\* than before when sjNew returns the buffer it allocated, and unchanged
\* when the constructor throws or substitutes another object;
\* sjObjectsDeleted is one more when sjDel destroys its object, as many
\* as destructors were called, and unchanged when sjDel only decrements
\* the count.  sjCreating comes right after the constructor, sjDeleting
\* right before the destructor.
C33_CountersTrackLifecycle ==
  /\ [](/\ (result.op = "sjNew" /\ result.returned /\ result.ret = allocated)
             => sjObjectsCreated = Earlier + 1
        /\ (proc.fn # "sjNew" \/ NewWithoutBuffer)
             => sjObjectsCreated = Earlier
        /\ DelDestroys => sjObjectsDeleted = 1
        /\ (result.op = "sjDel" /\ result.returned /\ result.ret = 0)
             => sjObjectsDeleted = 0
        /\ proc.fn # "sjDel" => sjObjectsDeleted = 0
        /\ sjObjectsDeleted = heap[existing].dels
        /\ \A i \in 1..Len(calls) :
             /\ calls[i] = "sjCreating" => i > 1 /\ calls[i - 1] = "new"
             /\ calls[i] = "del" => i > 1 /\ calls[i - 1] = "sjDeleting"
             /\ calls[i] = "sjDeleting"
                  => i < Len(calls) /\ calls[i + 1] = "del")
  /\ [][/\ sjObjectsCreated' \in {sjObjectsCreated, sjObjectsCreated + 1}
        /\ sjObjectsDeleted' \in {sjObjectsDeleted, sjObjectsDeleted + 1}
        /\ sjObjectsCreated' # sjObjectsCreated
             => proc'.pc = "ctorDone" /\ proc'.o = allocated
        /\ sjObjectsDeleted' # sjObjectsDeleted
             => heap'[existing].dels = heap[existing].dels + 1]_allVars

\* sjNew has returned its buffer, counted once, the callback after the
\* constructor.
C33_Witness ==
  /\ result.op = "sjNew" /\ result.returned /\ result.ret = allocated
  /\ sjObjectsCreated = Earlier + 1
  /\ calls = <<"new", "sjCreating">>

\* The order of the blocks of a region.
BlockRank(block) ==
  IF block = "try" THEN 1 ELSE IF block = "catch" THEN 2 ELSE 3

\* The blocks a frame was landed in from, each later in the region than
\* the one before.
LandedInOrder(cx) ==
  \A i, j \in 1..Len(cx.landed) :
    i < j => BlockRank(cx.landed[i]) < BlockRank(cx.landed[j])

\* C35.  setjmp returns a code at most three times for one frame, each
\* time from a later block (try, the claiming catch, finally); the
\* counter of the frame stays far below the limit of the runaway guard
\* and EXIT_TOO_NESTED is never the exit status; and every region that
\* was entered is left, or the process ends.
C35_RegionsAreLeft ==
  /\ [](/\ exitCode # EXIT_TOO_NESTED
        /\ \A i \in 1..nextContext :
             /\ Len(contexts[i].landed) <= 3
             /\ LandedInOrder(contexts[i])
             /\ contexts[i].caught
                  <= FINALLY_THRESHOLD + 2 * Len(contexts[i].clauses) + 1)
  /\ \A d \in 1..MaxDepth :
       (nextContext >= d) ~> (nextContext < d \/ ~Running)

\* A frame whose try body, claiming catch and finally body have all
\* thrown, at its endtry.
C35_Witness ==
  /\ nextContext > 0
  /\ Top.landed = <<"try", "catch", "finally">>
  /\ Top.pc = "endtry"

\* The code of the exception the constructor threw: throw empties the
\* trace, so its entry is the first.
CtorCode == trace[1].code

\* C36.  When the constructor called by sjNew throws an exception with a
\* code C >= 1, the exception that sjNew's endtry hands to the caller has
\* the code C: the caller's frame is landed in with C, so that catch(C)
\* matches, or with no caller's region the last entry of the trace has C.
C36_CtorCodeReachesCaller ==
  [][(CtorThrew /\ Propagates /\ CtorCode >= 1)
       => IF proc.depth = 0
            THEN trace'[nextTrace'].code = CtorCode
            ELSE /\ contexts'[proc.depth].pending = CtorCode
                 /\ sxLastJumpCode' = CtorCode]_allVars

\* This step ends the process through the uncaught-exception path of
\* _throw: a throw at the top level, or the outermost endtry handing an
\* exception on.
UncaughtPath ==
  /\ Running /\ exitCode' # -1
  /\ \/ ExitThrow /\ nextContext = 0
     \/ LeaveTry /\ nextContext = 1

\* The statuses of the internal invariant violations: EXIT_TOO_NESTED ..
\* EXIT_MAX_TRIES.
Reserved == EXIT_TOO_NESTED..EXIT_MAX_TRIES

\* C37 as stated.  Termination through the uncaught-exception path never
\* yields a reserved status.
C37_UncaughtNeverReserved ==
  [][UncaughtPath => exitCode' \notin Reserved]_allVars

\* C37, amended.  The status of an unhandled exception is 200 + code,
\* capped at 254: it is a reserved status exactly when the code is 50 or
\* more - 250..253 for the codes 50..53, 254 (EXIT_MAX_TRIES) from 54 up.
C37_UncaughtReservedFrom50 ==
  [][UncaughtPath =>
       LET code == trace'[nextTrace'].code
       IN /\ exitCode' \in Reserved <=> code >= 50
          /\ exitCode' = IF code >= 54 THEN EXIT_MAX_TRIES
                         ELSE EXIT_UNCAUGHT + code]_allVars

\* An unhandled exception with the code 50 has ended the process with the
\* status of EXIT_TOO_NESTED.
C37_Witness ==
  /\ exitCode = EXIT_TOO_NESTED
  /\ nextContext = 0
  /\ trace[nextTrace].code = 50

\* C38.  No payload is freed twice, and at every fresh throw each payload
\* handed to throw or rethrow before it has been freed, once: none is
\* left over, not even one whose entry arrived at a full trace.
C38_ExtraFreedOnce ==
  /\ [](\A e \in 1..Len(heap) : heap[e].frees <= 1)
  /\ [][ExtraThrow
          => \A e \in 1..Len(heap) :
               heap'[e].frees = 1 /\ ~heap'[e].live]_allVars

====
